---- MODULE Spec2Model ----
(***************************************************************************)
(* A model of the map label editor: the LabelEditor component's label and   *)
(* batch creation handlers, the magic-wand flood fill, the BatchLabelModal  *)
(* divider editing and the batch house numbering.                           *)
(*                                                                          *)
(* Numbers that are fractions in the program (divider positions, cell       *)
(* coordinates) are exact rationals [n, d] in lowest terms.  Text is a      *)
(* sequence of one-character strings until it is joined into a label id.    *)
(***************************************************************************)
EXTENDS Integers, Sequences, FiniteSets, TLC

(***************************************************************************)
(* Bounds of the model.                                                     *)
(***************************************************************************)
\* largest grid the batch form offers in the model
MaxRows == 3
MaxCols == 4
\* Date.now() runs from 0 to MaxTime
MaxTime == 1
\* labels the images may hold together before the model stops creating more
MaxLabels == 2
\* calls of adjustCell in one behaviour of SpecDividers
MaxAdjust == 1
\* the most fragments a recognized text is put together from
MaxFragments == 3
\* the most digits and points in a row in a recognized text
MaxNumberLength == 7
\* the most rows typed into the modal under SpecDividers
MaxModalRows == 2
\* the most points of a list given to simplifyPolygon or calculateArea
MaxPoints == 4
\* the most moves of a point in one behaviour of SpecDrag
MaxDrags == 2
\* the longest boundary given to the strided sample
MaxBoundary == 120
\* the most columns of a grid given to getCellBounds under SpecCells
MaxCellCols == 3
\* the most uses of undo, the image list, import and the label panel under SpecImages
MaxOps == 3
\* the size of the image the magic wand reads
ImageWidth == 6
ImageHeight == 5
\* magicWandSelect's cap on the region (500000 in the program) and its smallest
\* region (100 in the program), scaled to an image of this size
maxPixels == 6
minRegionSize == 3

(***************************************************************************)
(* Sequences and integers.                                                  *)
(***************************************************************************)
Abs(a) == IF a < 0 THEN -a ELSE a

Min2(a, b) == IF a <= b THEN a ELSE b

Max2(a, b) == IF a >= b THEN a ELSE b

\* JavaScript's % : the result takes the sign of the dividend
JsRem(a, b) == IF a >= 0 THEN a % b ELSE -((-a) % b)

RECURSIVE GCD(_, _)
GCD(a, b) == IF b = 0 THEN a ELSE GCD(b, a % b)

Range(s) == {s[i] : i \in DOMAIN s}

\* the concatenation of a sequence of sequences
RECURSIVE Flatten(_)
Flatten(ss) == IF ss = <<>> THEN <<>> ELSE Head(ss) \o Flatten(Tail(ss))

(***************************************************************************)
(* Exact rationals.                                                         *)
(***************************************************************************)
Rat(n, d) ==
    LET g == GCD(Abs(n), Abs(d))
        s == IF d < 0 THEN -1 ELSE 1
    IN  [n |-> (s * n) \div g, d |-> (s * d) \div g]

RInt(k) == [n |-> k, d |-> 1]

\* the operations cancel common factors before they multiply
RAdd(a, b) ==
    LET g == GCD(a.d, b.d)
    IN  Rat(a.n * (b.d \div g) + b.n * (a.d \div g), (a.d \div g) * b.d)

RSub(a, b) == RAdd(a, [n |-> -b.n, d |-> b.d])

RMul(a, b) ==
    LET g1 == Max2(1, GCD(Abs(a.n), b.d))
        g2 == Max2(1, GCD(Abs(b.n), a.d))
    IN  Rat((a.n \div g1) * (b.n \div g2), (a.d \div g2) * (b.d \div g1))

RDiv(a, b) == RMul(a, IF b.n < 0 THEN [n |-> -b.d, d |-> -b.n] ELSE [n |-> b.d, d |-> b.n])

RLt(a, b) ==
    LET g == GCD(a.d, b.d)
    IN  a.n * (b.d \div g) < b.n * (a.d \div g)

RLe(a, b) ==
    LET g == GCD(a.d, b.d)
    IN  a.n * (b.d \div g) <= b.n * (a.d \div g)

RMax(a, b) == IF RLt(a, b) THEN b ELSE a

RMin(a, b) == IF RLt(b, a) THEN b ELSE a

(***************************************************************************)
(* Text.                                                                    *)
(***************************************************************************)
IsSpace(c) == c = " "

\* String.replace(/\s+/g, '_') : every run of whitespace becomes one '_'
RECURSIVE ReplaceWs(_)
ReplaceWs(t) ==
    IF t = <<>> THEN <<>>
    ELSE IF IsSpace(Head(t))
         THEN IF Len(t) > 1 /\ IsSpace(t[2])
              THEN ReplaceWs(Tail(t))
              ELSE <<"_">> \o ReplaceWs(Tail(t))
         ELSE <<Head(t)>> \o ReplaceWs(Tail(t))

\* the string a template literal builds from its pieces
RECURSIVE Join(_)
Join(t) == IF t = <<>> THEN "" ELSE Head(t) \o Join(Tail(t))

(***************************************************************************)
(* Points and labels.                                                       *)
(***************************************************************************)
Pt(x, y) == [x |-> x, y |-> y]

IPt(x, y) == [x |-> RInt(x), y |-> RInt(y)]

\* an optional value: <<>> is undefined, <<v>> is v
Undefined == <<>>

Some(v) == <<v>>

(***************************************************************************)
(* handleCreateBatchLabels: cell rectangles, house numbers, label ids.      *)
(***************************************************************************)
NumberingOrders ==
    {"ltr", "rtl", "boustrophedon", "evens-odds", "odds-evens", "col-ltr", "col-rtl"}

\* Array.from({ length: n - 1 }, (_, i) => (i + 1) / n)
EqualDividers(n) == [i \in 1..(n - 1) |-> Rat(i, n)]

\* getCellBounds with equal divisions whatever the dividers
getCellBoundsEqual(config, rect, row, col) ==
    [x      |-> RAdd(rect.start.x,
                     RMul(Rat(col, config.cols), RSub(rect.end.x, rect.start.x))),
     y      |-> RAdd(rect.start.y,
                     RMul(Rat(row, config.rows), RSub(rect.end.y, rect.start.y))),
     width  |-> RMul(Rat(1, config.cols), RSub(rect.end.x, rect.start.x)),
     height |-> RMul(Rat(1, config.rows), RSub(rect.end.y, rect.start.y))]

getCellBounds(config, rect, row, col) ==
    LET totalWidth    == RSub(rect.end.x, rect.start.x)
        totalHeight   == RSub(rect.end.y, rect.start.y)
        colDividers   == IF config.columnDividers # Undefined
                         THEN config.columnDividers[1]
                         ELSE EqualDividers(config.cols)
        rowDividers   == IF config.rowDividers # Undefined
                         THEN config.rowDividers[1]
                         ELSE EqualDividers(config.rows)
        colBoundaries == <<RInt(0)>> \o colDividers \o <<RInt(1)>>
        rowBoundaries == <<RInt(0)>> \o rowDividers \o <<RInt(1)>>
        leftFraction   == colBoundaries[col + 1]
        rightFraction  == colBoundaries[col + 2]
        topFraction    == rowBoundaries[row + 1]
        bottomFraction == rowBoundaries[row + 2]
    IN  [x      |-> RAdd(rect.start.x, RMul(leftFraction, totalWidth)),
         y      |-> RAdd(rect.start.y, RMul(topFraction, totalHeight)),
         width  |-> RMul(RSub(rightFraction, leftFraction), totalWidth),
         height |-> RMul(RSub(bottomFraction, topFraction), totalHeight)]

\* sequenceIndex that ignores the numbering order
sequenceIndexLtr(config, row, col) == row * config.cols + col

\* sequenceIndex that counts the odd rows of boustrophedon from cols down to 1
sequenceIndexSnakeFromCols(config, row, col) ==
    LET rows == config.rows
        cols == config.cols
    IN  CASE config.numberingOrder = "ltr" -> row * cols + col
          [] config.numberingOrder = "rtl" -> row * cols + (cols - 1 - col)
          [] config.numberingOrder = "boustrophedon" ->
                 IF JsRem(row, 2) = 0 THEN row * cols + col
                 ELSE row * cols + (cols - col)
          [] config.numberingOrder = "col-ltr" -> col * rows + row
          [] config.numberingOrder = "col-rtl" -> (cols - 1 - col) * rows + row
          [] OTHER -> row * cols + col

sequenceIndex(config, row, col) ==
    LET rows == config.rows
        cols == config.cols
    IN  CASE config.numberingOrder = "ltr" -> row * cols + col
          [] config.numberingOrder = "rtl" -> row * cols + (cols - 1 - col)
          [] config.numberingOrder = "boustrophedon" ->
                 IF JsRem(row, 2) = 0 THEN row * cols + col
                 ELSE row * cols + (cols - 1 - col)
          [] config.numberingOrder = "col-ltr" -> col * rows + row
          [] config.numberingOrder = "col-rtl" -> (cols - 1 - col) * rows + row
          [] OTHER -> row * cols + col

firstEven(startHouseNumber) ==
    IF JsRem(startHouseNumber, 2) = 0 THEN startHouseNumber ELSE startHouseNumber + 1

firstOdd(startHouseNumber) ==
    IF JsRem(startHouseNumber, 2) = 1 THEN startHouseNumber ELSE startHouseNumber + 1

\* getHouseNumber that numbers every row from left to right
getHouseNumberNoSnake(config, row, col) ==
    LET start     == config.startHouseNumber
        increment == config.houseNumberIncrement
        custom    == config.customSequence
    IN  IF config.useCustomSequence /\ custom # Undefined /\ Len(custom[1]) > 0
        THEN custom[1][JsRem(sequenceIndex(config, row, col), Len(custom[1])) + 1]
        ELSE start + (row * config.cols + col) * increment

\* getHouseNumber that counts the columns of col-ltr and col-rtl by cols
getHouseNumberColsForRows(config, row, col) ==
    LET rows      == config.rows
        cols      == config.cols
        start     == config.startHouseNumber
        increment == config.houseNumberIncrement
        order     == config.numberingOrder
        custom    == config.customSequence
    IN  IF config.useCustomSequence /\ custom # Undefined /\ Len(custom[1]) > 0
        THEN custom[1][JsRem(sequenceIndex(config, row, col), Len(custom[1])) + 1]
        ELSE CASE order = "rtl" -> start + (row * cols + (cols - 1 - col)) * increment
               [] order = "col-ltr" -> start + (col * cols + row) * increment
               [] order = "col-rtl" -> start + ((cols - 1 - col) * cols + row) * increment
               [] OTHER -> start + (row * cols + col) * increment

getHouseNumber(config, row, col) ==
    LET rows      == config.rows
        cols      == config.cols
        start     == config.startHouseNumber
        increment == IF config.houseNumberIncrement # 0
                     THEN config.houseNumberIncrement ELSE 1
        order     == config.numberingOrder
        custom    == config.customSequence
    IN  IF config.useCustomSequence /\ custom # Undefined /\ Len(custom[1]) > 0
        THEN custom[1][JsRem(sequenceIndex(config, row, col), Len(custom[1])) + 1]
        ELSE CASE order = "ltr" -> start + (row * cols + col) * increment
               [] order = "rtl" -> start + (row * cols + (cols - 1 - col)) * increment
               [] order = "boustrophedon" ->
                      IF JsRem(row, 2) = 0
                      THEN start + (row * cols + col) * increment
                      ELSE start + (row * cols + (cols - 1 - col)) * increment
               [] order = "evens-odds" ->
                      IF rows = 2
                      THEN IF row = 0
                           THEN firstEven(start) + col * 2 * increment
                           ELSE firstOdd(start) + col * 2 * increment
                      ELSE start + (row * cols + col) * increment
               [] order = "odds-evens" ->
                      IF rows = 2
                      THEN IF row = 0
                           THEN firstOdd(start) + col * 2 * increment
                           ELSE firstEven(start) + col * 2 * increment
                      ELSE start + (row * cols + col) * increment
               [] order = "col-ltr" -> start + (col * rows + row) * increment
               [] order = "col-rtl" -> start + ((cols - 1 - col) * rows + row) * increment
               [] OTHER -> start + (row * cols + col) * increment

\* batchLabelId without the cell's row and column
batchLabelIdNoCell(config, houseNum, time, row, col) ==
    Join(ReplaceWs(<<config.type, "_">> \o config.startBlockNumber
                   \o <<"_", ToString(houseNum), "_", ToString(time)>>))

\* `${type}_${startBlockNumber}_${houseNum}_${Date.now()}_${row}_${col}`.replace(/\s+/g, '_')
batchLabelId(config, houseNum, time, row, col) ==
    Join(ReplaceWs(<<config.type, "_">> \o config.startBlockNumber
                   \o <<"_", ToString(houseNum), "_", ToString(time),
                        "_", ToString(row), "_", ToString(col)>>))

\* `${type}_${blockNumber || ''}_${Date.now()}`.replace(/\s+/g, '_')
newLabelId(labelData, time) ==
    Join(ReplaceWs(<<labelData.type, "_">> \o labelData.blockNumber
                   \o <<"_", ToString(time)>>))

cellPoints(b) ==
    <<Pt(b.x, b.y),
      Pt(RAdd(b.x, b.width), b.y),
      Pt(RAdd(b.x, b.width), RAdd(b.y, b.height)),
      Pt(b.x, RAdd(b.y, b.height))>>

\* a cell's detections when nothing is detected
NoDetection == [color |-> Undefined, area |-> Undefined]

\* where a label comes from (not a field of the program's Label): the number of
\* its batch (0: a single label), its cell and what the detections returned for it
madeBy(batchNo, row, col, det) == [batch |-> batchNo, row |-> row, col |-> col, det |-> det]

\* batchLabel with a failed area extraction stored as the area 0
batchLabelAreaZero(config, rect, row, col, det, time, batchNo) ==
    LET currentHouseNum == getHouseNumber(config, row, col)
        pts             == cellPoints(getCellBounds(config, rect, row, col))
        labelColor      == IF config.autoDetectColor /\ det.color # Undefined
                           THEN det.color[1] ELSE config.color
        detectedArea    == IF config.autoDetectArea
                           THEN IF det.area # Undefined THEN det.area ELSE Some(0)
                           ELSE Undefined
    IN  [id          |-> batchLabelId(config, currentHouseNum, time, row, col),
         type        |-> config.type,
         points      |-> pts \o <<pts[1]>>,
         blockNumber |-> config.startBlockNumber,
         houseNumber |-> ToString(currentHouseNum),
         color       |-> labelColor,
         area        |-> detectedArea,
         createdAt   |-> time,
         made        |-> madeBy(batchNo, row, col, det)]

\* the label built for cell (row, col); det is what the colour sampler and the
\* area extractor returned for the cell (Undefined: null)
batchLabel(config, rect, row, col, det, time, batchNo) ==
    LET currentHouseNum == getHouseNumber(config, row, col)
        pts             == cellPoints(getCellBounds(config, rect, row, col))
        labelColor      == IF config.autoDetectColor /\ det.color # Undefined
                           THEN det.color[1] ELSE config.color
        detectedArea    == IF config.autoDetectArea /\ det.area # Undefined
                           THEN det.area ELSE Undefined
    IN  [id          |-> batchLabelId(config, currentHouseNum, time, row, col),
         type        |-> config.type,
         points      |-> pts \o <<pts[1]>>,
         blockNumber |-> config.startBlockNumber,
         houseNumber |-> ToString(currentHouseNum),
         color       |-> labelColor,
         area        |-> detectedArea,
         createdAt   |-> time,
         made        |-> madeBy(batchNo, row, col, det)]

(***************************************************************************)
(* extractAreaFromRegion: from the recognized text to the area.  A text is  *)
(* a sequence of characters; the characters outside ASCII carry names.      *)
(***************************************************************************)
SuperscriptTwo == "sup2"

ArabicMeem == "meem"

ArabicTeh == "teh"

ArabicReh == "reh"

Digits == {"0", "1", "2", "3", "4", "5", "6", "7", "8", "9"}

UpperLetters ==
    <<"A", "B", "C", "D", "E", "F", "G", "H", "I", "J", "K", "L", "M",
      "N", "O", "P", "Q", "R", "S", "T", "U", "V", "W", "X", "Y", "Z">>

LowerLetters ==
    <<"a", "b", "c", "d", "e", "f", "g", "h", "i", "j", "k", "l", "m",
      "n", "o", "p", "q", "r", "s", "t", "u", "v", "w", "x", "y", "z">>

\* \d
isDigit(c) == c \in Digits

\* \s
isWhitespace(c) == c \in {" ", "\n", "\t"}

\* \w
isWordChar(c) == c \in Digits \cup Range(UpperLetters) \cup Range(LowerLetters) \cup {"_"}

\* the i flag: letters compare without case
lowerCase(c) ==
    IF c \in Range(UpperLetters)
    THEN LowerLetters[CHOOSE k \in DOMAIN UpperLetters : UpperLetters[k] = c]
    ELSE c

digitValue(c) == CHOOSE v \in 0..9 : ToString(v) = c

\* the position after the digits that start at i (i itself when there is none)
RECURSIVE digitsEnd(_, _)
digitsEnd(text, i) ==
    IF i <= Len(text) /\ isDigit(text[i]) THEN digitsEnd(text, i + 1) ELSE i

\* the position after the whitespace that starts at i
RECURSIVE whitespaceEnd(_, _)
whitespaceEnd(text, i) ==
    IF i <= Len(text) /\ isWhitespace(text[i]) THEN whitespaceEnd(text, i + 1) ELSE i

\* the literal lit stands at position i of the text, case ignored
literalAt(text, i, lit) ==
    /\ i + Len(lit) - 1 <= Len(text)
    /\ \A k \in DOMAIN lit : lowerCase(text[i + k - 1]) = lit[k]

\* parseInt of the digits text[i .. j - 1]
RECURSIVE parseDigits(_, _, _)
parseDigits(text, i, j) ==
    IF j <= i THEN 0 ELSE parseDigits(text, i, j - 1) * 10 + digitValue(text[j - 1])

RECURSIVE PowerOfTen(_)
PowerOfTen(k) == IF k = 0 THEN 1 ELSE 10 * PowerOfTen(k - 1)

\* parseFloat of digits text[i .. d - 1], and of the digits text[d + 1 .. e - 1]
\* behind a point at d when e > d
parseFloat(text, i, d, e) ==
    IF e > d + 1
    THEN Rat(parseDigits(text, i, d) * PowerOfTen(e - d - 1) + parseDigits(text, d + 1, e),
             PowerOfTen(e - d - 1))
    ELSE RInt(parseDigits(text, i, d))

\* the end of one alternative of a unit at position k: the literal, then an
\* optional point when dotted, then whitespace when spaced, then the tail
unitAlternativeEnd(text, k, lit, dotted, spaced, tail) ==
    LET p1 == k + Len(lit)
        p2 == IF dotted /\ p1 <= Len(text) /\ text[p1] = "." THEN p1 + 1 ELSE p1
        p3 == IF spaced THEN whitespaceEnd(text, p2) ELSE p2
    IN  IF literalAt(text, k, lit) /\ literalAt(text, p3, tail) THEN p3 + Len(tail) ELSE 0

\* (?:m²|m2|sqm|sq\.?\s*m|square\s*m) for pattern 1 and (?:م²|متر) for pattern 2
\* at position k: the position after the unit, 0 when there is none
unitEnd(text, k, pattern) ==
    LET ends == IF pattern = 1
                THEN <<unitAlternativeEnd(text, k, <<"m", SuperscriptTwo>>, FALSE, FALSE, <<>>),
                       unitAlternativeEnd(text, k, <<"m", "2">>, FALSE, FALSE, <<>>),
                       unitAlternativeEnd(text, k, <<"s", "q", "m">>, FALSE, FALSE, <<>>),
                       unitAlternativeEnd(text, k, <<"s", "q">>, TRUE, TRUE, <<"m">>),
                       unitAlternativeEnd(text, k, <<"s", "q", "u", "a", "r", "e">>,
                                          FALSE, TRUE, <<"m">>)>>
                ELSE <<unitAlternativeEnd(text, k, <<ArabicMeem, SuperscriptTwo>>,
                                          FALSE, FALSE, <<>>),
                       unitAlternativeEnd(text, k, <<ArabicMeem, ArabicTeh, ArabicReh>>,
                                          FALSE, FALSE, <<>>)>>
        found == {a \in DOMAIN ends : ends[a] # 0}
    IN  IF found = {} THEN 0 ELSE ends[CHOOSE a \in found : \A b \in found : a <= b]

NoMatch == [end |-> 0]

\* (\d+\.?\d*)\s*(?:unit) tried at position i
unitMatchAt(text, i, pattern) ==
    LET d1     == digitsEnd(text, i)
        hasDot == d1 <= Len(text) /\ text[d1] = "."
        d2     == IF hasDot THEN digitsEnd(text, d1 + 1) ELSE d1
        e      == unitEnd(text, whitespaceEnd(text, d2), pattern)
    IN  IF d1 > i /\ e # 0
        THEN [end |-> e, value |-> parseFloat(text, i, d1, d2), hasDecimal |-> hasDot]
        ELSE NoMatch

\* (\d+\.\d+) tried at position i
decimalMatchAt(text, i) ==
    LET d1 == digitsEnd(text, i)
        d2 == digitsEnd(text, d1 + 1)
    IN  IF d1 > i /\ d1 <= Len(text) /\ text[d1] = "." /\ d2 > d1 + 1
        THEN [end |-> d2, value |-> parseFloat(text, i, d1, d2), hasDecimal |-> TRUE]
        ELSE NoMatch

\* (\d+)[,\s\-](\d) tried at position i; the value is parseFloat of `${1}.${2}`
altDecimalMatchAt(text, i) ==
    LET d1 == digitsEnd(text, i)
    IN  IF /\ d1 > i
           /\ d1 + 1 <= Len(text)
           /\ (text[d1] \in {",", "-"} \/ isWhitespace(text[d1]))
           /\ isDigit(text[d1 + 1])
        THEN [end |-> d1 + 2,
              value |-> Rat(parseDigits(text, i, d1) * 10 + digitValue(text[d1 + 1]), 10),
              hasDecimal |-> TRUE]
        ELSE NoMatch

\* \b(\d{2,5})\b tried at position i; originalText ends in text[end - 1]
wholeNumberMatchAt(text, i) ==
    LET d1 == digitsEnd(text, i)
    IN  IF /\ d1 - i >= 2
           /\ d1 - i <= 5
           /\ (i = 1 \/ ~isWordChar(text[i - 1]))
           /\ (d1 > Len(text) \/ ~isWordChar(text[d1]))
        THEN [end |-> d1, value |-> RInt(parseDigits(text, i, d1)), hasDecimal |-> FALSE]
        ELSE NoMatch

matchAt(kind, text, i, pattern) ==
    CASE kind = "unit" -> unitMatchAt(text, i, pattern)
      [] kind = "decimal" -> decimalMatchAt(text, i)
      [] kind = "altDecimal" -> altDecimalMatchAt(text, i)
      [] kind = "wholeNumber" -> wholeNumberMatchAt(text, i)

\* while ((match = pattern.exec(text)) !== null): the matches of a global pattern
\* from position pos on, each search starting where the last match ended
RECURSIVE execAll(_, _, _, _)
RECURSIVE execFrom(_, _, _, _, _)
execFrom(kind, text, pos, pattern, match) ==
    IF match = NoMatch THEN execAll(kind, text, pos + 1, pattern)
    ELSE <<match>> \o execAll(kind, text, match.end, pattern)

execAll(kind, text, pos, pattern) ==
    IF pos > Len(text) THEN <<>>
    ELSE execFrom(kind, text, pos, pattern, matchAt(kind, text, pos, pattern))

inRange(value, low, high) == RLe(RInt(low), value) /\ RLe(value, RInt(high))

foundNumber(value, hasDecimal, hasUnit) ==
    [value |-> value, hasDecimal |-> hasDecimal, hasUnit |-> hasUnit]

\* the entries the unit patterns push
foundUnits(kept) ==
    [k \in DOMAIN kept |-> foundNumber(kept[k].value, kept[k].hasDecimal, TRUE)]

unitNumbers(text) ==
    foundUnits(SelectSeq(execAll("unit", text, 1, 1) \o execAll("unit", text, 1, 2),
                         LAMBDA m : inRange(m.value, 50, 10000)))

\* the entries the decimal pattern and then the misread-separator pattern push
foundDecimals(kept) ==
    [k \in DOMAIN kept |-> foundNumber(kept[k].value, TRUE, FALSE)]

decimalNumbers(text) ==
    foundDecimals(SelectSeq(execAll("decimal", text, 1, 0),
                            LAMBDA m : inRange(m.value, 50, 10000))
                  \o SelectSeq(execAll("altDecimal", text, 1, 0),
                               LAMBDA m : inRange(m.value, 50, 1000)))

\* what one pass of the whole-number loop pushes: nothing or one entry
wholeNumberEntry(text, match, expectedHouseNumber) ==
    LET value      == match.value.n
        endsInZero == text[match.end - 1] = "0"
        implied    == endsInZero /\ value >= 1000 /\ value <= 100000
                      /\ inRange(Rat(value, 10), 100, 1000)
        adjusted   == IF implied THEN Rat(value, 10) ELSE RInt(value)
    IN  IF expectedHouseNumber # Undefined /\ Abs(value - expectedHouseNumber[1]) <= 2
        THEN <<>>
        ELSE IF inRange(adjusted, 100, 10000)
             THEN <<foundNumber(adjusted, implied, FALSE)>>
             ELSE <<>>

RECURSIVE wholeNumbersFrom(_, _, _)
wholeNumbersFrom(text, matches, expectedHouseNumber) ==
    IF matches = <<>> THEN <<>>
    ELSE wholeNumberEntry(text, Head(matches), expectedHouseNumber)
             \o wholeNumbersFrom(text, Tail(matches), expectedHouseNumber)

wholeNumbers(text, expectedHouseNumber) ==
    wholeNumbersFrom(text, execAll("wholeNumber", text, 1, 0), expectedHouseNumber)

\* foundNumbers.find(pred): the first entry of the sequence that has the flag
firstWith(foundNumbers, flag) ==
    LET hits == {k \in DOMAIN foundNumbers : foundNumbers[k][flag]}
    IN  foundNumbers[CHOOSE k \in hits : \A j \in hits : k <= j]

\* foundNumbers.sort((a, b) => b.value - a.value)[0].value
largestValue(foundNumbers) ==
    LET values == {foundNumbers[k].value : k \in DOMAIN foundNumbers}
    IN  CHOOSE v \in values : \A w \in values : RLe(w, v)

\* the return statements that follow the three passes, given what the unit
\* patterns, the decimal patterns and the whole-number pattern have pushed
areaOf(units, decimals, wholes) ==
    IF \E k \in DOMAIN units : units[k].hasUnit
    THEN Some(firstWith(units, "hasUnit").value)
    ELSE IF \E k \in DOMAIN (units \o decimals) : (units \o decimals)[k].hasDecimal
         THEN Some(firstWith(units \o decimals, "hasDecimal").value)
         ELSE IF Len(units \o decimals \o wholes) > 0
              THEN Some(largestValue(units \o decimals \o wholes))
              ELSE Undefined

\* the largest of all the numbers found
largestOf(all) == IF Len(all) > 0 THEN Some(largestValue(all)) ELSE Undefined

\* extractAreaFromRegion that returns the largest of all the numbers it finds
areaFromTextLargest(text, expectedHouseNumber) ==
    largestOf(unitNumbers(text) \o decimalNumbers(text)
              \o wholeNumbers(text, expectedHouseNumber))

\* extractAreaFromRegion whose whole-number pass keeps the numbers next to the
\* expected house number
areaFromTextUnfiltered(text, expectedHouseNumber) ==
    areaOf(unitNumbers(text), decimalNumbers(text), wholeNumbers(text, Undefined))

\* extractAreaFromRegion from the recognized text on: null (Undefined) or the area
areaFromText(text, expectedHouseNumber) ==
    areaOf(unitNumbers(text), decimalNumbers(text),
           wholeNumbers(text, expectedHouseNumber))

(***************************************************************************)
(* The state.                                                               *)
(***************************************************************************)
VARIABLES
    \* LabelEditor (useState)
    labelsData,          \* labelsData.images: image key -> its labels
    selectedImageKey,
    selectedLabelId,     \* Undefined (null) or <<id>>
    mode,
    drawingPoints,
    rectStart,           \* Undefined (null) or <<point>>
    rectEnd,
    showNewLabelModal,
    showBatchModal,
    batchSelectionRect,  \* Undefined (null) or <<[start, end]>>
    history,
    magicWandLoading,
    \* the environment
    now,                 \* what Date.now() returns
    detections,          \* what the colour sampler and the OCR may return for a cell
    pixels,              \* the image's pixels: <<x, y>> -> <<r, g, b>>
    \* calls of the async handlers that are waiting at an await
    batches,             \* handleCreateBatchLabels
    batchLog,            \* the config and the image of every batch confirmed so far
    wand,                \* handleMagicWandClick and its magicWandSelect
    \* BatchLabelModal (useState)
    form,
    \* a call of one of the pure functions: its arguments and what it returned
    call

editorVars ==
    <<labelsData, selectedImageKey, selectedLabelId, mode, drawingPoints,
      rectStart, rectEnd, showNewLabelModal, showBatchModal, batchSelectionRect, history,
      magicWandLoading>>

envVars == <<now, detections, pixels, call>>

asyncVars == <<batches, batchLog, wand>>

vars == <<editorVars, envVars, asyncVars, form>>

\* no pure function is called
NoCall == [fn |-> "none"]

ImageKeys == {"plan", "upload"}

EditorModes ==
    {"view", "edit", "draw", "draw-rect", "batch", "delete", "magic-wand"}

LabelTypes == {"residential"}

\* history keeps the last 19 snapshots and the new one
HistoryKeep == 19

\* the number of points the magic wand samples the boundary down to
TargetPoints == 50

\* prev.slice(-n)
LastN(s, n) == IF Len(s) <= n THEN s ELSE SubSeq(s, Len(s) - n + 1, Len(s))

RECURSIVE SumLen(_, _)
SumLen(f, keys) ==
    IF keys = {} THEN 0
    ELSE LET k == CHOOSE x \in keys : TRUE IN Len(f[k]) + SumLen(f, keys \ {k})

\* the labels of all images together
labelCount == SumLen(labelsData, DOMAIN labelsData)

RemoveAt(s, i) == SubSeq(s, 1, i - 1) \o SubSeq(s, i + 1, Len(s))

\* saveHistory that keeps every snapshot
saveHistoryAll == history' = Append(history, labelsData)

\* saveHistory: setHistory(prev => [...prev.slice(-19), copy of labelsData])
saveHistory == history' = Append(LastN(history, HistoryKeep), labelsData)

\* setLabelsData(prev => ... labels: [...prev.images[key].labels, ...added])
appendLabels(key, added) ==
    labelsData' = [labelsData EXCEPT ![key] = @ \o added]

\* a visible modal covers the toolbar, the image selector and the canvas
NoModal == ~showNewLabelModal /\ ~showBatchModal

(***************************************************************************)
(* The environment: the clock.                                              *)
(***************************************************************************)
Tick ==
    /\ now < MaxTime
    /\ now' = now + 1
    /\ UNCHANGED <<editorVars, detections, pixels, call, asyncVars, form>>

(***************************************************************************)
(* Toolbar and image selector.                                              *)
(***************************************************************************)
handleModeChange(newMode) ==
    /\ mode' = newMode
    /\ drawingPoints' = IF newMode # "draw" /\ newMode # "magic-wand"
                        THEN <<>> ELSE drawingPoints
    /\ rectStart' = IF newMode # "draw-rect" THEN Undefined ELSE rectStart
    /\ rectEnd' = IF newMode # "draw-rect" THEN Undefined ELSE rectEnd
    /\ batchSelectionRect' = IF newMode # "batch" THEN Undefined ELSE batchSelectionRect
    /\ selectedLabelId' = IF newMode \in {"draw", "delete", "draw-rect", "batch", "magic-wand"}
                          THEN Undefined ELSE selectedLabelId
    /\ UNCHANGED <<labelsData, selectedImageKey, showNewLabelModal, showBatchModal,
                   history, magicWandLoading, envVars, asyncVars, form>>

ModeChange ==
    /\ NoModal
    /\ \E newMode \in EditorModes : newMode # mode /\ handleModeChange(newMode)

onSelectImage(key) ==
    /\ key \in DOMAIN labelsData
    /\ key # selectedImageKey
    /\ selectedImageKey' = key
    /\ selectedLabelId' = Undefined
    /\ UNCHANGED <<labelsData, mode, drawingPoints, rectStart, rectEnd,
                   showNewLabelModal, showBatchModal, batchSelectionRect, history,
                   magicWandLoading, envVars, asyncVars, form>>

SelectImage == NoModal /\ \E key \in ImageKeys : onSelectImage(key)

(***************************************************************************)
(* Drawing a polygon or a rectangle, and the new-label modal.               *)
(***************************************************************************)
\* where the k-th click of a drawing lands
ClickPath == <<IPt(10, 10), IPt(40, 10), IPt(40, 30), IPt(10, 30)>>

\* points drawn before the model stops adding more
MaxDraw == 3

handleCanvasClick(point) ==
    /\ mode = "draw"
    /\ drawingPoints' = Append(drawingPoints, point)
    /\ UNCHANGED <<labelsData, selectedImageKey, selectedLabelId, mode, rectStart,
                   rectEnd, showNewLabelModal, showBatchModal, batchSelectionRect,
                   history, magicWandLoading, envVars, asyncVars, form>>

CanvasClick ==
    /\ NoModal
    /\ Len(drawingPoints) < MaxDraw
    /\ handleCanvasClick(ClickPath[(Len(drawingPoints) % Len(ClickPath)) + 1])

handleFinishDrawing ==
    /\ Len(drawingPoints) >= 3
    /\ showNewLabelModal' = TRUE
    /\ UNCHANGED <<labelsData, selectedImageKey, selectedLabelId, mode, drawingPoints,
                   rectStart, rectEnd, showBatchModal, batchSelectionRect, history,
                   magicWandLoading, envVars, asyncVars, form>>

handleCancelDrawing ==
    /\ drawingPoints' = <<>>
    /\ rectStart' = Undefined
    /\ rectEnd' = Undefined
    /\ batchSelectionRect' = Undefined
    /\ mode' = "view"
    /\ UNCHANGED <<labelsData, selectedImageKey, selectedLabelId, showNewLabelModal,
                   showBatchModal, history, magicWandLoading, envVars, asyncVars, form>>

\* EditorToolbar offers Finish and Cancel while drawing
FinishDrawing == NoModal /\ (mode = "draw" \/ drawingPoints # <<>>) /\ handleFinishDrawing

CancelDrawing == NoModal /\ (mode = "draw" \/ drawingPoints # <<>>) /\ handleCancelDrawing

\* the corners a rectangle drag starts and ends at
RectCorners == {IPt(10, 10), IPt(40, 30)}

handleRectDrawStart(point) ==
    /\ rectStart' = Some(point)
    /\ rectEnd' = Some(point)
    /\ UNCHANGED <<labelsData, selectedImageKey, selectedLabelId, mode, drawingPoints,
                   showNewLabelModal, showBatchModal, batchSelectionRect, history,
                   magicWandLoading, envVars, asyncVars, form>>

\* the overlay starts a rectangle on mouse down in draw-rect mode
RectDrawStart ==
    /\ NoModal
    /\ mode = "draw-rect"
    /\ rectStart = Undefined
    /\ \E point \in RectCorners : handleRectDrawStart(point)

handleRectDrawEnd(point) ==
    /\ IF rectStart # Undefined /\ rectEnd # Undefined
       THEN LET minX == RMin(rectStart[1].x, point.x)
                maxX == RMax(rectStart[1].x, point.x)
                minY == RMin(rectStart[1].y, point.y)
                maxY == RMax(rectStart[1].y, point.y)
            IN  IF RLt(RInt(5), RSub(maxX, minX)) /\ RLt(RInt(5), RSub(maxY, minY))
                THEN /\ drawingPoints' = <<Pt(minX, minY), Pt(maxX, minY),
                                           Pt(maxX, maxY), Pt(minX, maxY)>>
                     /\ showNewLabelModal' = TRUE
                ELSE UNCHANGED <<drawingPoints, showNewLabelModal>>
       ELSE UNCHANGED <<drawingPoints, showNewLabelModal>>
    /\ rectStart' = Undefined
    /\ rectEnd' = Undefined
    /\ UNCHANGED <<labelsData, selectedImageKey, selectedLabelId, mode, showBatchModal,
                   batchSelectionRect, history, magicWandLoading, envVars, asyncVars,
                   form>>

\* the overlay ends the rectangle on mouse up
RectDrawEnd ==
    /\ NoModal
    /\ mode = "draw-rect"
    /\ rectStart # Undefined
    /\ \E point \in RectCorners : handleRectDrawEnd(point)

\* what the new-label modal's form may hold when it is confirmed
BlockNumbers == {<<"G", " ", "1">>}

NewLabelForms ==
    [type : LabelTypes, blockNumber : BlockNumbers, houseNumber : {"7"},
     color : {"#4A90D9"}]

\* newLabel without the closing copy of the first point
newLabelOpen(labelData, time) ==
    [id          |-> newLabelId(labelData, time),
     type        |-> labelData.type,
     points      |-> drawingPoints,
     blockNumber |-> labelData.blockNumber,
     houseNumber |-> labelData.houseNumber,
     color       |-> labelData.color,
     area        |-> Undefined,
     createdAt   |-> time,
     made        |-> madeBy(0, 0, 0, NoDetection)]

newLabel(labelData, time) ==
    [id          |-> newLabelId(labelData, time),
     type        |-> labelData.type,
     points      |-> drawingPoints \o <<drawingPoints[1]>>,
     blockNumber |-> labelData.blockNumber,
     houseNumber |-> labelData.houseNumber,
     color       |-> labelData.color,
     area        |-> Undefined,
     createdAt   |-> time,
     made        |-> madeBy(0, 0, 0, NoDetection)]

\* NewLabelModal's handleConfirm: onConfirm (handleCreateLabel), then onClose
handleCreateLabel(labelData) ==
    /\ IF Len(drawingPoints) < 3
       THEN /\ UNCHANGED <<labelsData, history, selectedLabelId>>
            /\ mode' = IF mode = "draw-rect" THEN mode ELSE "view"
       ELSE /\ saveHistory
            /\ appendLabels(selectedImageKey, <<newLabel(labelData, now)>>)
            /\ selectedLabelId' = Some(newLabelId(labelData, now))
            /\ mode' = "view"
    /\ drawingPoints' = <<>>
    /\ showNewLabelModal' = FALSE
    /\ UNCHANGED <<selectedImageKey, rectStart, rectEnd, showBatchModal,
                   batchSelectionRect, magicWandLoading, now, detections, pixels,
                   asyncVars, form>>

CreateLabel ==
    /\ showNewLabelModal
    /\ labelCount < MaxLabels
    /\ \E labelData \in NewLabelForms : handleCreateLabel(labelData)
    /\ UNCHANGED call

\* NewLabelModal's onClose
NewLabelClose ==
    /\ showNewLabelModal
    /\ showNewLabelModal' = FALSE
    /\ drawingPoints' = <<>>
    /\ mode' = IF mode = "draw-rect" THEN mode ELSE "view"
    /\ UNCHANGED <<labelsData, selectedImageKey, selectedLabelId, rectStart, rectEnd,
                   showBatchModal, batchSelectionRect, history, magicWandLoading,
                   envVars, asyncVars, form>>

(***************************************************************************)
(* Batch creation: the selection, BatchLabelModal's form and the handler.   *)
(***************************************************************************)
\* the corners a batch selection drag starts and ends at
BatchCorners == {IPt(0, 0), IPt(10, 10), IPt(48, 24)}

handleBatchSelectionEnd(start, end) ==
    /\ LET minX == RMin(start.x, end.x)
           maxX == RMax(start.x, end.x)
           minY == RMin(start.y, end.y)
           maxY == RMax(start.y, end.y)
       IN  IF RLt(RInt(20), RSub(maxX, minX)) /\ RLt(RInt(20), RSub(maxY, minY))
           THEN /\ batchSelectionRect' =
                       Some([start |-> Pt(minX, minY), end |-> Pt(maxX, maxY)])
                /\ showBatchModal' = TRUE
           ELSE /\ batchSelectionRect' = Undefined
                /\ UNCHANGED showBatchModal
    /\ UNCHANGED <<labelsData, selectedImageKey, selectedLabelId, mode, drawingPoints,
                   rectStart, rectEnd, showNewLabelModal, history, magicWandLoading,
                   envVars, asyncVars, form>>

\* the overlay reports a finished drag in batch mode
BatchSelectionEnd ==
    /\ NoModal
    /\ mode = "batch"
    /\ \E start \in BatchCorners, end \in BatchCorners : handleBatchSelectionEnd(start, end)

\* BatchLabelModal's onClose
BatchModalClose ==
    /\ showBatchModal
    /\ showBatchModal' = FALSE
    /\ batchSelectionRect' = Undefined
    /\ UNCHANGED <<labelsData, selectedImageKey, selectedLabelId, mode, drawingPoints,
                   rectStart, rectEnd, showNewLabelModal, history, magicWandLoading,
                   envVars, asyncVars, form>>

\* the BatchConfig that BatchLabelModal's handleConfirm hands to onConfirm
configOf(f) ==
    [rows                 |-> f.numRows,
     cols                 |-> f.numCols,
     startBlockNumber     |-> f.startBlockNumber,
     startHouseNumber     |-> IF f.startHouseNumber # 0 THEN f.startHouseNumber ELSE 1,
     houseNumberIncrement |-> IF f.houseNumberIncrement # 0
                              THEN f.houseNumberIncrement ELSE 1,
     useCustomSequence    |-> f.useCustomSequence,
     customSequence       |-> IF f.useCustomSequence
                              THEN Some(f.customSequence) ELSE Undefined,
     columnDividers       |-> IF Len(f.columnDividers) > 0
                              THEN Some(f.columnDividers) ELSE Undefined,
     rowDividers          |-> IF Len(f.rowDividers) > 0
                              THEN Some(f.rowDividers) ELSE Undefined,
     type                 |-> f.type,
     color                |-> f.color,
     numberingOrder       |-> f.numberingOrder,
     autoDetectColor      |-> f.autoDetectColor,
     autoDetectArea       |-> f.autoDetectArea]

cellRow(config, k) == k \div config.cols

cellCol(config, k) == k % config.cols

\* the loop's awaits: one per cell when a detection is enabled
awaitsCells(config) == config.autoDetectColor \/ config.autoDetectArea

\* BatchLabelModal's handleConfirm: onConfirm (handleCreateBatchLabels up to its
\* first await, or to its end when it awaits nothing), then onClose
handleCreateBatchLabels(config) ==
    /\ showBatchModal' = FALSE
    /\ IF batchSelectionRect = Undefined
       THEN UNCHANGED <<labelsData, history, mode, batchSelectionRect, asyncVars>>
       ELSE /\ saveHistory
            /\ batchLog' = Append(batchLog, [config |-> config, key |-> selectedImageKey])
            /\ UNCHANGED wand
            /\ batchSelectionRect' = Undefined
            /\ IF awaitsCells(config)
               THEN /\ batches' = Append(batches,
                           [config    |-> config,
                            rect      |-> batchSelectionRect[1],
                            key       |-> selectedImageKey,
                            cell      |-> 0,
                            newLabels |-> <<>>,
                            threw     |-> FALSE,
                            no        |-> Len(batchLog) + 1])
                    /\ UNCHANGED <<labelsData, mode>>
               ELSE /\ appendLabels(selectedImageKey,
                           [k \in 1..(config.rows * config.cols) |->
                               batchLabel(config, batchSelectionRect[1],
                                          cellRow(config, k - 1), cellCol(config, k - 1),
                                          NoDetection, now, Len(batchLog) + 1)])
                    /\ mode' = "view"
                    /\ UNCHANGED batches
    /\ UNCHANGED <<selectedImageKey, selectedLabelId, drawingPoints, rectStart, rectEnd,
                   showNewLabelModal, magicWandLoading, now, detections, pixels, form>>

RECURSIVE pendingCells(_)
pendingCells(bs) ==
    IF bs = <<>> THEN 0
    ELSE Head(bs).config.rows * Head(bs).config.cols + pendingCells(Tail(bs))

CreateBatchLabels ==
    /\ showBatchModal
    /\ \/ batchSelectionRect = Undefined
       \/ labelCount + pendingCells(batches) + form.numRows * form.numCols <= MaxLabels
    /\ handleCreateBatchLabels(configOf(form))
    /\ UNCHANGED call

\* resumeCreateBatchLabels with every cell's label added to the image as soon as
\* it is built
resumeCommitEachCell(i, det) ==
    LET b     == batches[i]
        label == batchLabel(b.config, b.rect, cellRow(b.config, b.cell),
                            cellCol(b.config, b.cell), det, now, b.no)
    IN  /\ appendLabels(b.key, <<label>>)
        /\ IF b.cell + 1 < b.config.rows * b.config.cols
           THEN /\ batches' = [batches EXCEPT ![i].cell = b.cell + 1,
                                              ![i].newLabels = Append(@, label)]
                /\ UNCHANGED <<batchSelectionRect, mode>>
           ELSE /\ batches' = RemoveAt(batches, i)
                /\ batchSelectionRect' = Undefined
                /\ mode' = "view"
        /\ UNCHANGED <<selectedImageKey, selectedLabelId, drawingPoints, rectStart,
                       rectEnd, showNewLabelModal, showBatchModal, history,
                       magicWandLoading, envVars, batchLog, wand, form>>

\* handleCreateBatchLabels resumed after the awaits of cell b.cell, which returned
\* det: the cell's label is built; after the last cell the labels are committed.
\* The updater reads prev.images[selectedImageKey].labels with the key of the
\* confirmation: when that image is gone it throws a TypeError
resumeCreateBatchLabels(i, det) ==
    LET b     == batches[i]
        label == batchLabel(b.config, b.rect, cellRow(b.config, b.cell),
                            cellCol(b.config, b.cell), det, now, b.no)
        all   == Append(b.newLabels, label)
    IN  /\ IF b.cell + 1 < b.config.rows * b.config.cols
           THEN /\ batches' = [batches EXCEPT ![i].cell = b.cell + 1,
                                              ![i].newLabels = all]
                /\ UNCHANGED <<labelsData, batchSelectionRect, mode>>
           ELSE IF b.key \in DOMAIN labelsData
           THEN /\ batches' = RemoveAt(batches, i)
                /\ appendLabels(b.key, all)
                /\ batchSelectionRect' = Undefined
                /\ mode' = "view"
           ELSE /\ batches' = [batches EXCEPT ![i].threw = TRUE, ![i].newLabels = all]
                /\ UNCHANGED <<labelsData, batchSelectionRect, mode>>
        /\ UNCHANGED <<selectedImageKey, selectedLabelId, drawingPoints, rectStart,
                       rectEnd, showNewLabelModal, showBatchModal, history,
                       magicWandLoading, envVars, batchLog, wand, form>>

ResumeBatch ==
    \E i \in DOMAIN batches :
        /\ ~batches[i].threw
        /\ \E det \in detections : resumeCreateBatchLabels(i, det)

(***************************************************************************)
(* The magic wand: magicWandSelect's flood fill and polygon, and            *)
(* handleMagicWandClick.                                                    *)
(***************************************************************************)
\* useState(30) and useState(50): the toolbar's sliders at their defaults
magicWandTolerance == 30

magicWandEdgeThreshold == 50

Positions == (0..(ImageWidth - 1)) \X (0..(ImageHeight - 1))

InBounds(p) == p[1] >= 0 /\ p[1] < ImageWidth /\ p[2] >= 0 /\ p[2] < ImageHeight

getPixel(px, x, y) == px[<<x, y>>]

\* Math.abs(r - r') + Math.abs(g - g') + Math.abs(b - b')
channelDiff(a, b) == Abs(a[1] - b[1]) + Abs(a[2] - b[2]) + Abs(a[3] - b[3])

\* the square of getEdgeStrength(x, y)
edgeStrengthSquared(px, x, y) ==
    IF x <= 0 \/ x >= ImageWidth - 1 \/ y <= 0 \/ y >= ImageHeight - 1
    THEN 255 * 255
    ELSE LET gx == channelDiff(getPixel(px, x + 1, y), getPixel(px, x - 1, y))
             gy == channelDiff(getPixel(px, x, y + 1), getPixel(px, x, y - 1))
         IN  gx * gx + gy * gy

\* edgeStrength > edgeThreshold
isEdge(px, x, y) ==
    edgeStrengthSquared(px, x, y) > magicWandEdgeThreshold * magicWandEdgeThreshold

colorMatch(px, seed, x, y) ==
    channelDiff(getPixel(px, x, y), getPixel(px, seed[1], seed[2])) <= magicWandTolerance

\* Math.round
RRound(r) == (2 * r.n + r.d) \div (2 * r.d)

idleWand ==
    [phase |-> "idle", seed |-> <<0, 0>>, visited |-> {}, region |-> <<>>,
     queue |-> <<>>, pixelCount |-> 0, iters |-> 0, result |-> Undefined]

\* the loop's condition without the cap
fillContinuesUncapped(w) == w.queue # <<>>

\* while (queue.length > 0 && pixelCount < maxPixels)
fillContinues(w) == w.queue # <<>> /\ w.pixelCount < maxPixels

\* the loop's body without the neighbour above
fillStepThreeNeighbours(px, w) ==
    LET p    == Head(w.queue)
        rest == Tail(w.queue)
        x    == p[1]
        y    == p[2]
    IN  IF p \in w.visited
        THEN [w EXCEPT !.queue = rest, !.iters = @ + 1]
        ELSE IF ~InBounds(p) \/ isEdge(px, x, y) \/ ~colorMatch(px, w.seed, x, y)
             THEN [w EXCEPT !.queue = rest, !.iters = @ + 1, !.visited = @ \cup {p}]
             ELSE [w EXCEPT !.queue = rest \o <<<<x + 1, y>>, <<x - 1, y>>, <<x, y + 1>>>>,
                            !.iters = @ + 1,
                            !.visited = @ \cup {p},
                            !.region = Append(@, p),
                            !.pixelCount = @ + 1]

\* the loop's body; iters counts the iterations
fillStep(px, w) ==
    LET p    == Head(w.queue)
        rest == Tail(w.queue)
        x    == p[1]
        y    == p[2]
    IN  IF p \in w.visited
        THEN [w EXCEPT !.queue = rest, !.iters = @ + 1]
        ELSE IF ~InBounds(p) \/ isEdge(px, x, y) \/ ~colorMatch(px, w.seed, x, y)
             THEN [w EXCEPT !.queue = rest, !.iters = @ + 1, !.visited = @ \cup {p}]
             ELSE [w EXCEPT !.queue = rest \o <<<<x + 1, y>>, <<x - 1, y>>,
                                                <<x, y + 1>>, <<x, y - 1>>>>,
                            !.iters = @ + 1,
                            !.visited = @ \cup {p},
                            !.region = Append(@, p),
                            !.pixelCount = @ + 1]

RECURSIVE SeqMin(_)
SeqMin(t) == IF Len(t) = 1 THEN t[1] ELSE Min2(t[1], SeqMin(Tail(t)))

RECURSIVE SeqMax(_)
SeqMax(t) == IF Len(t) = 1 THEN t[1] ELSE Max2(t[1], SeqMax(Tail(t)))

RECURSIVE SeqSum(_)
SeqSum(t) == IF t = <<>> THEN 0 ELSE t[1] + SeqSum(Tail(t))

\* the corners of the region's bounding box
boundingBox(region) ==
    LET xs   == [i \in DOMAIN region |-> region[i][1]]
        ys   == [i \in DOMAIN region |-> region[i][2]]
        minX == SeqMin(xs)
        maxX == SeqMax(xs)
        minY == SeqMin(ys)
        maxY == SeqMax(ys)
    IN  <<<<minX, minY>>, <<maxX, minY>>, <<maxX, maxY>>, <<minX, maxY>>>>

\* the region's pixels with a neighbour outside the region, in the region's order
boundaryPixels(region) ==
    LET isInRegion(x, y) == <<x, y>> \in Range(region)
        onBoundary(p)    == \/ ~isInRegion(p[1] - 1, p[2])
                            \/ ~isInRegion(p[1] + 1, p[2])
                            \/ ~isInRegion(p[1], p[2] - 1)
                            \/ ~isInRegion(p[1], p[2] + 1)
    IN  SelectSeq(region, onBoundary)

\* where Math.atan2(y, x) lies: below 0, at 0, between 0 and pi, at pi
angleClass(v) ==
    IF v[2] < 0 THEN 0
    ELSE IF v[2] = 0 /\ v[1] >= 0 THEN 1
    ELSE IF v[2] > 0 THEN 2
    ELSE 3

\* Math.atan2(a) < Math.atan2(b) for the vectors a and b
angleLess(a, b) ==
    \/ angleClass(a) < angleClass(b)
    \/ /\ angleClass(a) = angleClass(b)
       /\ angleClass(a) \in {0, 2}
       /\ a[1] * b[2] - a[2] * b[1] > 0

\* the vector from the centroid of the region to p, scaled by the number of
\* region pixels; c holds that number and the sums of the pixels' coordinates
fromCentroid(p, c) == <<c.n * p[1] - c.sumX, c.n * p[2] - c.sumY>>

\* boundary.sort by the angle around the centroid (a stable sort)
RECURSIVE insertByAngle(_, _, _)
insertByAngle(sorted, p, c) ==
    IF sorted = <<>> THEN <<p>>
    ELSE IF angleLess(fromCentroid(p, c), fromCentroid(Head(sorted), c))
         THEN <<p>> \o sorted
         ELSE <<Head(sorted)>> \o insertByAngle(Tail(sorted), p, c)

RECURSIVE sortByAngleFrom(_, _, _)
sortByAngleFrom(done, todo, c) ==
    IF todo = <<>> THEN done
    ELSE sortByAngleFrom(insertByAngle(done, Head(todo), c), Tail(todo), c)

sortByAngle(boundary, region) ==
    sortByAngleFrom(<<>>, boundary,
                    [n    |-> Len(region),
                     sumX |-> SeqSum([i \in DOMAIN region |-> region[i][1]]),
                     sumY |-> SeqSum([i \in DOMAIN region |-> region[i][2]])])

\* for (let i = 0; i < boundary.length; i += step) simplified.push(boundary[i])
everyNth(t, step) == [k \in 1..((Len(t) + step - 1) \div step) |-> t[(k - 1) * step + 1]]

\* the square of perpendicularDistance(point, lineStart, lineEnd)
perpendicularDistanceSquared(point, lineStart, lineEnd) ==
    LET dx    == lineEnd[1] - lineStart[1]
        dy    == lineEnd[2] - lineStart[2]
        magSq == dx * dx + dy * dy
    IN  IF magSq = 0
        THEN RInt((point[1] - lineStart[1]) * (point[1] - lineStart[1])
                  + (point[2] - lineStart[2]) * (point[2] - lineStart[2]))
        ELSE LET u        == Rat((point[1] - lineStart[1]) * dx
                                 + (point[2] - lineStart[2]) * dy, magSq)
                 closestX == RAdd(RInt(lineStart[1]), RMul(u, RInt(dx)))
                 closestY == RAdd(RInt(lineStart[2]), RMul(u, RInt(dy)))
                 ex       == RSub(RInt(point[1]), closestX)
                 ey       == RSub(RInt(point[2]), closestY)
             IN  RAdd(RMul(ex, ex), RMul(ey, ey))

\* n is the square of an integer: Math.sqrt(n) is exact
isSquare(n) == \E k \in 0..n : k * k = n

\* What rounding to the nearest double leaves of the distance of a point ON the line:
\* when the chord's length is not an integer, mag * mag is not dx * dx + dy * dy, u
\* is off in its last place and the closest point misses the point by |u| units.
\* The square of the computed distance in units of 2^-104; this is the value IEEE 754
\* arithmetic gives for coordinates in 0..2, and its order of magnitude beyond.
roundingResidue(point, lineStart, lineEnd) ==
    LET dx == lineEnd[1] - lineStart[1]
        dy == lineEnd[2] - lineStart[2]
        px == point[1] - lineStart[1]
        py == point[2] - lineStart[2]
    IN  IF isSquare(dx * dx + dy * dy) \/ px * dy - py * dx # 0
        THEN 0
        ELSE px * px + py * py

\* perpendicularDistance(point, lineStart, lineEnd) as the code computes it: the
\* square of the exact distance, and the rounding residue that is left when it is 0
perpendicularDistance(point, lineStart, lineEnd) ==
    [distSq  |-> perpendicularDistanceSquared(point, lineStart, lineEnd),
     residue |-> roundingResidue(point, lineStart, lineEnd)]

\* the distance of epsilon, a number given exactly
exactDistance(distSq) == [distSq |-> distSq, residue |-> 0]

\* dist > maxDist
distanceGreater(dist, maxDist) ==
    \/ RLt(maxDist.distSq, dist.distSq)
    \/ /\ ~RLt(dist.distSq, maxDist.distSq)
       /\ dist.residue > maxDist.residue

\* the index (from 0) and the distance of the first point farthest from the line
\* between the first and the last point
RECURSIVE farthest(_, _, _, _)
farthest(points, i, maxIdx, maxDist) ==
    IF i >= Len(points) - 1 THEN [idx |-> maxIdx, dist |-> maxDist]
    ELSE LET dist == perpendicularDistance(points[i + 1], points[1], points[Len(points)])
         IN  IF distanceGreater(dist, maxDist)
             THEN farthest(points, i + 1, i, dist)
             ELSE farthest(points, i + 1, maxIdx, maxDist)

\* Douglas-Peucker that never splits: the end points of whatever it is given
simplifyPolygonEndsOnly(points, epsilonSq) ==
    IF Len(points) <= 2 THEN points ELSE <<points[1], points[Len(points)]>>

\* Douglas-Peucker; epsilonSq is the square of epsilon
RECURSIVE simplifyPolygon(_, _)
simplifyPolygon(points, epsilonSq) ==
    IF Len(points) <= 2 THEN points
    ELSE LET far == farthest(points, 1, 0, exactDistance(RInt(0)))
         IN  IF distanceGreater(far.dist, exactDistance(epsilonSq))
             THEN LET left  == simplifyPolygon(SubSeq(points, 1, far.idx + 1), epsilonSq)
                      right == simplifyPolygon(SubSeq(points, far.idx + 1, Len(points)),
                                               epsilonSq)
                  IN  SubSeq(left, 1, Len(left) - 1) \o right
             ELSE <<points[1], points[Len(points)]>>

\* the sample of the sorted boundary: targetPoints = Math.min(length, 50),
\* step = Math.max(1, Math.floor(length / targetPoints)), every step-th point
stridedSample(boundary) ==
    everyNth(boundary, Max2(1, Len(boundary) \div Min2(Len(boundary), TargetPoints)))

\* finalPolygon: the boundary sorted by angle, every Nth point of it, simplified
finalPolygon(region) ==
    LET box          == boundingBox(region)
        simplified   == stridedSample(sortByAngle(boundaryPixels(region), region))
        regionSize   == Max2(box[3][1] - box[1][1], box[3][2] - box[1][2])
        \* epsilon = regionSize * 0.02
        epsilonSq    == Rat(regionSize * regionSize, 50 * 50)
    IN  simplifyPolygon(simplified, epsilonSq)

\* the polygon of a region without the last fallback to the bounding box
regionPolygonAsSimplified(region) ==
    IF Len(boundaryPixels(region)) < 4 THEN boundingBox(region)
    ELSE finalPolygon(region)

\* the polygon magicWandSelect makes of a region that is large enough
regionPolygon(region) ==
    IF Len(boundaryPixels(region)) < 4 THEN boundingBox(region)
    ELSE IF Len(finalPolygon(region)) < 4 THEN boundingBox(region)
    ELSE finalPolygon(region)

\* magicWandSelect's result with a rectangle returned for a region that is too small
magicWandResultBoxFallback(w) ==
    IF w.region = <<>> THEN Undefined
    ELSE IF Len(w.region) < minRegionSize THEN Some(boundingBox(w.region))
    ELSE Some(regionPolygon(w.region))

\* what magicWandSelect returns after the fill: null or the polygon
magicWandResult(w) ==
    IF Len(w.region) < minRegionSize THEN Undefined ELSE Some(regionPolygon(w.region))

\* handleMagicWandClick after its await, magicWandSelect having returned result
wandReturns(w, result) ==
    /\ IF result # Undefined /\ Len(result[1]) >= 3
       THEN /\ drawingPoints' = [i \in DOMAIN result[1] |->
                                    IPt(result[1][i][1], result[1][i][2])]
            /\ showNewLabelModal' = TRUE
       ELSE UNCHANGED <<drawingPoints, showNewLabelModal>>
    /\ magicWandLoading' = FALSE
    /\ wand' = [w EXCEPT !.phase = "returned", !.result = result]
    /\ UNCHANGED <<labelsData, selectedImageKey, selectedLabelId, mode, rectStart, rectEnd,
                   showBatchModal, batchSelectionRect, history, envVars, batches,
                   batchLog, form>>

\* handleMagicWandClick up to its await: magicWandSelect starts loading the image
handleMagicWandClick(point) ==
    /\ mode = "magic-wand"
    /\ ~magicWandLoading
    /\ magicWandLoading' = TRUE
    /\ wand' = [idleWand EXCEPT !.phase = "loading",
                                !.seed = <<RRound(point.x), RRound(point.y)>>]
    /\ UNCHANGED <<labelsData, selectedImageKey, selectedLabelId, mode, drawingPoints,
                   rectStart, rectEnd, showNewLabelModal, showBatchModal,
                   batchSelectionRect, history, envVars, batches, batchLog, form>>

\* where the magic wand is clicked
WandClicks ==
    {IPt(x, y) : x \in (-1)..ImageWidth, y \in 0..(ImageHeight - 1)}
        \cup {Pt(Rat(3, 2), Rat(5, 2))}

MagicWandClick == NoModal /\ \E point \in WandClicks : handleMagicWandClick(point)

\* the image does not load: magicWandSelect catches the error and returns null
WandImageFails ==
    /\ wand.phase = "loading"
    /\ wandReturns(wand, Undefined)

\* the image loads: a seed outside the image returns null, any other starts the fill
WandImageLoads ==
    /\ wand.phase = "loading"
    /\ IF ~InBounds(wand.seed)
       THEN wandReturns(wand, Undefined)
       ELSE /\ wand' = [wand EXCEPT !.phase = "filling", !.queue = <<wand.seed>>]
            /\ UNCHANGED <<editorVars, envVars, batches, batchLog, form>>

\* one iteration of the fill loop
FillStep ==
    /\ wand.phase = "filling"
    /\ fillContinues(wand)
    /\ wand' = fillStep(pixels, wand)
    /\ UNCHANGED <<editorVars, envVars, batches, batchLog, form>>

\* the loop has ended: magicWandSelect returns and handleMagicWandClick resumes
WandReturns ==
    /\ wand.phase = "filling"
    /\ ~fillContinues(wand)
    /\ wandReturns(wand, magicWandResult(wand))

(***************************************************************************)
(* Initial states and specifications.                                       *)
(***************************************************************************)
\* BatchLabelModal's useState defaults, but for the fields given; adjusted counts
\* the calls of adjustCell
formWith(rows, cols, start, increment, order, custom, detect) ==
    [numRows              |-> rows,
     numCols              |-> cols,
     startBlockNumber     |-> <<"G", " ", "0", "1">>,
     startHouseNumber     |-> start,
     houseNumberIncrement |-> increment,
     useCustomSequence    |-> custom # Undefined,
     customSequence       |-> IF custom # Undefined THEN custom[1] ELSE <<>>,
     columnDividers       |-> EqualDividers(cols),
     rowDividers          |-> EqualDividers(rows),
     type                 |-> "residential",
     color                |-> "#4A90D9",
     numberingOrder       |-> order,
     autoDetectColor      |-> detect,
     autoDetectArea       |-> detect,
     draggingDivider      |-> Undefined,
     dragStartDividers    |-> Undefined,
     dragStartFraction    |-> Undefined,
     selectedCol          |-> 0,
     selectedRow          |-> 0,
     adjusted             |-> 0]

\* the forms the editor's specification confirms
EditorForms ==
    {formWith(1, 2, 1, 1, "ltr", Undefined, detect) : detect \in BOOLEAN}

(***************************************************************************)
(* BatchLabelModal: the grid size and the dividers.                         *)
(***************************************************************************)
modalUnchanged == UNCHANGED <<editorVars, envVars, asyncVars>>

\* setCols, and the effect that follows a change of numCols
setCols(n) ==
    /\ n # form.numCols
    /\ form' = [form EXCEPT !.numCols = n, !.columnDividers = EqualDividers(n)]
    /\ modalUnchanged

\* setRows, and the effect that follows a change of numRows
setRows(n) ==
    /\ n # form.numRows
    /\ form' = [form EXCEPT !.numRows = n, !.rowDividers = EqualDividers(n)]
    /\ modalUnchanged

dividersOf(f, type) == IF type = "col" THEN f.columnDividers ELSE f.rowDividers

withDividers(f, type, dividers) ==
    IF type = "col" THEN [f EXCEPT !.columnDividers = dividers]
    ELSE [f EXCEPT !.rowDividers = dividers]

handleDividerDragStart(type, index, fraction) ==
    /\ form' = [form EXCEPT !.draggingDivider = Some([type |-> type, index |-> index]),
                            !.dragStartDividers = Some(dividersOf(form, type)),
                            !.dragStartFraction = Some(fraction)]
    /\ modalUnchanged

\* index counts from 0
handleDividerDrag(type, index, fraction) ==
    /\ IF form.dragStartDividers = Undefined \/ form.dragStartFraction = Undefined
       THEN UNCHANGED form
       ELSE LET dividers    == dividersOf(form, type)
                minFraction == IF index > 0
                               THEN RAdd(dividers[index], Rat(1, 100)) ELSE Rat(1, 100)
                maxFraction == IF index < Len(dividers) - 1
                               THEN RSub(dividers[index + 2], Rat(1, 100)) ELSE Rat(99, 100)
                clampedFraction == RMax(minFraction, RMin(maxFraction, fraction))
            IN  form' = withDividers(form, type,
                                     [dividers EXCEPT ![index + 1] = clampedFraction])
    /\ modalUnchanged

handleDividerDragEnd ==
    /\ form' = [form EXCEPT !.draggingDivider = Undefined,
                            !.dragStartDividers = Undefined,
                            !.dragStartFraction = Undefined]
    /\ modalUnchanged

\* the boundaries adjustCell builds: the cell cellIndex gets newSize, every other
\* cell its share of the rest but at least 0.01
RECURSIVE newBoundaries(_, _, _, _, _, _)
newBoundaries(boundaries, cellIndex, newSize, otherCellsTotal, remaining, numCells) ==
    IF numCells = 0 THEN <<RInt(0)>>
    ELSE LET before       == newBoundaries(boundaries, cellIndex, newSize, otherCellsTotal,
                                           remaining, numCells - 1)
             i            == numCells - 1
             origSize     == RSub(boundaries[i + 2], boundaries[i + 1])
             proportion   == RDiv(origSize, otherCellsTotal)
             adjustedSize == RMax(Rat(1, 100), RMul(proportion, remaining))
         IN  Append(before, RAdd(before[i + 1],
                                 IF i = cellIndex THEN newSize ELSE adjustedSize))

\* cellIndex counts from 0; the dividers the code rewrites in place before it
\* builds newBoundaries are not read again
adjustCell(type, cellIndex, delta) ==
    LET dividers        == dividersOf(form, type)
        numCells        == IF type = "col" THEN form.numCols ELSE form.numRows
        boundaries      == <<RInt(0)>> \o dividers \o <<RInt(1)>>
        cellStart       == boundaries[cellIndex + 1]
        cellEnd         == boundaries[cellIndex + 2]
        cellSize        == RSub(cellEnd, cellStart)
        newSize         == RMax(Rat(2, 100), RMin(Rat(98, 100), RAdd(cellSize, delta)))
        otherCellsTotal == RSub(RInt(1), cellSize)
        built           == newBoundaries(boundaries, cellIndex, newSize, otherCellsTotal,
                                         RSub(RInt(1), newSize), numCells)
    IN  /\ IF dividers = <<>> \/ RLe(otherCellsTotal, Rat(2, 100))
           THEN form' = [form EXCEPT !.adjusted = @ + 1]
           ELSE form' = [withDividers(form, type, SubSeq(built, 2, Len(built) - 1))
                            EXCEPT !.adjusted = @ + 1]
        /\ modalUnchanged

\* a press on a cell of the preview
selectCell(colIdx, rowIdx) ==
    /\ form' = [form EXCEPT !.selectedCol = colIdx, !.selectedRow = rowIdx]
    /\ modalUnchanged

\* the reset button
resetToEqual ==
    /\ form' = [form EXCEPT !.columnDividers = EqualDividers(form.numCols),
                            !.rowDividers = EqualDividers(form.numRows)]
    /\ modalUnchanged

\* where the mouse is while a divider is dragged, as a fraction of the preview
DragFractions == {RInt(0), RInt(1)}

\* the grid size is typed while no divider is held
SetCols ==
    /\ showBatchModal
    /\ form.draggingDivider = Undefined
    /\ \E n \in 1..MaxCols : setCols(n)

SetRows ==
    /\ showBatchModal
    /\ form.draggingDivider = Undefined
    /\ \E n \in 1..MaxModalRows : setRows(n)

\* mouse down on a divider of the preview
DividerDragStart ==
    /\ showBatchModal
    /\ form.draggingDivider = Undefined
    /\ \E type \in {"col", "row"} : \E index \in 0..(Len(dividersOf(form, type)) - 1) :
           handleDividerDragStart(type, index, dividersOf(form, type)[index + 1])

\* the mouse moves over the preview while a divider is dragged
DividerDrag ==
    /\ showBatchModal
    /\ form.draggingDivider # Undefined
    /\ \E fraction \in DragFractions :
           handleDividerDrag(form.draggingDivider[1].type, form.draggingDivider[1].index,
                             fraction)

\* mouse up on the preview
DividerDragEnd ==
    /\ showBatchModal
    /\ form.draggingDivider # Undefined
    /\ handleDividerDragEnd

\* the first or the last cell of the preview's first row is pressed
SelectCell ==
    /\ showBatchModal
    /\ form.draggingDivider = Undefined
    /\ \E colIdx \in {0, form.numCols - 1} :
           colIdx # form.selectedCol /\ selectCell(colIdx, 0)

\* the shrink and expand buttons of the selected column and row; a selection left
\* beyond a grid made smaller is not followed
AdjustCell ==
    /\ showBatchModal
    /\ form.draggingDivider = Undefined
    /\ form.adjusted < MaxAdjust
    /\ \/ /\ form.selectedCol < form.numCols
          /\ \E delta \in {Rat(-2, 100), Rat(2, 100)} :
                 adjustCell("col", form.selectedCol, delta)
       \/ /\ form.selectedRow < form.numRows
          /\ \E delta \in {Rat(-3, 100), Rat(3, 100)} :
                 adjustCell("row", form.selectedRow, delta)

ResetToEqual ==
    /\ showBatchModal
    /\ form.draggingDivider = Undefined
    /\ resetToEqual

\* what the colour sampler and the area extractor may return for a cell:
\* null (the image does not load, nothing is found, the OCR throws) or a value
AllDetections ==
    {[color |-> Undefined, area |-> Undefined],
     [color |-> Some("#ff0000"), area |-> Undefined],
     [color |-> Some("#ff0000"), area |-> Some(240)]}

InitEditor ==
    /\ labelsData = [key \in ImageKeys |-> <<>>]
    /\ selectedImageKey = "plan"
    /\ selectedLabelId = Undefined
    /\ mode = "view"
    /\ drawingPoints = <<>>
    /\ rectStart = Undefined
    /\ rectEnd = Undefined
    /\ showNewLabelModal = FALSE
    /\ showBatchModal = FALSE
    /\ batchSelectionRect = Undefined
    /\ history = <<>>
    /\ magicWandLoading = FALSE
    /\ now = 0
    /\ batches = <<>>
    /\ batchLog = <<>>
    /\ wand = idleWand

\* an image of one colour
flatImage == [p \in Positions |-> <<200, 200, 200>>]

\* an image that darkens by 5 per column
gradientImage == [p \in Positions |-> <<200 - 5 * p[1], 200 - 5 * p[1], 200 - 5 * p[1]>>]

\* an image of one colour with a dark line down column 3
wallImage ==
    [p \in Positions |-> IF p[1] = 3 THEN <<0, 0, 0>> ELSE <<200, 200, 200>>]

\* an image of one colour with one darker pixel
dotImage ==
    [p \in Positions |-> IF p = <<2, 2>> THEN <<185, 185, 185>> ELSE <<200, 200, 200>>]

\* a dark image with a light line along row 2
corridorImage ==
    [p \in Positions |-> IF p[2] = 2 THEN <<200, 200, 200>> ELSE <<0, 0, 0>>]

Images == {flatImage, gradientImage, wallImage, dotImage, corridorImage}

Init ==
    /\ InitEditor
    /\ call = NoCall
    /\ pixels = flatImage
    /\ detections = AllDetections
    /\ form \in EditorForms

Next ==
    \/ Tick
    \/ ModeChange
    \/ CanvasClick
    \/ FinishDrawing
    \/ CancelDrawing
    \/ CreateLabel
    \/ NewLabelClose
    \/ BatchSelectionEnd
    \/ BatchModalClose
    \/ CreateBatchLabels
    \/ ResumeBatch

Spec == Init /\ [][Next]_vars

(***************************************************************************)
(* SpecBatch: one batch form out of many, confirmed on a selection.         *)
(***************************************************************************)
StartNumbers == {-3, -2, 1, 2}

Increments == {1, 2}

\* the custom sequence field: not used, used with three numbers, used but empty
CustomSequences == {Undefined, Some(<<3, 5, 6>>), Some(<<>>)}

\* every form without detection, and a form with detection for every grid
BatchForms ==
    {formWith(rows, cols, start, increment, order, custom, FALSE) :
        rows \in 1..MaxRows, cols \in 1..MaxCols, start \in StartNumbers,
        increment \in Increments, order \in NumberingOrders,
        custom \in CustomSequences}
    \cup {formWith(rows, cols, 1, 1, "ltr", Some(<<3, 5>>), TRUE) :
              rows \in 1..MaxRows, cols \in 1..MaxCols}

InitBatch ==
    /\ InitEditor
    /\ call = NoCall
    /\ pixels = flatImage
    /\ detections = {[color |-> Some("#ff0000"), area |-> Some(240)]}
    /\ form \in BatchForms

\* the toolbar's batch button
EnterBatchMode == NoModal /\ mode # "batch" /\ handleModeChange("batch")

\* SpecBatch follows one batch from its confirmation to its end
ConfirmBatch ==
    /\ showBatchModal
    /\ batchLog = <<>>
    /\ handleCreateBatchLabels(configOf(form))
    /\ UNCHANGED call

NextBatch ==
    \/ Tick
    \/ EnterBatchMode
    \/ BatchSelectionEnd
    \/ ConfirmBatch
    \/ ResumeBatch

SpecBatch == InitBatch /\ [][NextBatch]_vars

(***************************************************************************)
(* SpecDividers: the batch modal is open on a selection.                    *)
(***************************************************************************)
InitDividers ==
    /\ labelsData = [key \in ImageKeys |-> <<>>]
    /\ selectedImageKey = "plan"
    /\ selectedLabelId = Undefined
    /\ mode = "batch"
    /\ drawingPoints = <<>>
    /\ rectStart = Undefined
    /\ rectEnd = Undefined
    /\ showNewLabelModal = FALSE
    /\ showBatchModal = TRUE
    /\ batchSelectionRect = Some([start |-> IPt(0, 0), end |-> IPt(48, 24)])
    /\ history = <<>>
    /\ magicWandLoading = FALSE
    /\ now = 0
    /\ batches = <<>>
    /\ batchLog = <<>>
    /\ wand = idleWand
    /\ call = NoCall
    /\ pixels = flatImage
    /\ detections = {NoDetection}
    /\ form = formWith(2, MaxCols, 1, 1, "ltr", Undefined, FALSE)

NextDividers ==
    \/ SetCols
    \/ SetRows
    \/ DividerDragStart
    \/ DividerDrag
    \/ DividerDragEnd
    \/ SelectCell
    \/ AdjustCell
    \/ ResetToEqual

SpecDividers == InitDividers /\ [][NextDividers]_vars

(***************************************************************************)
(* SpecArea: extractAreaFromRegion is called on one cell; the OCR returns    *)
(* one of many texts.                                                       *)
(***************************************************************************)
AreaFragments ==
    {<<"1", "6", "0">>, <<"1", "6", "0", "0">>, <<"6", "0">>, <<"2", "5", "0">>,
     <<"7">>, <<"5">>, <<".">>, <<",">>, <<" ">>, <<"x">>,
     <<"m", "2">>, <<"m", SuperscriptTwo>>, <<"6", "0", ".", "5">>}

\* 240.0 m²; 1600; 7; 60 sq. m; 60 SQUARE M; 60 متر; 60.5x70,5 160m2 250;
\* 1600 250 (two lines)
AreaExamples ==
    {<<"2", "4", "0", ".", "0", " ", "m", SuperscriptTwo>>,
     <<"1", "6", "0", "0">>,
     <<"7">>,
     <<"6", "0", " ", "s", "q", ".", " ", "m">>,
     <<"6", "0", " ", "S", "Q", "U", "A", "R", "E", " ", "M">>,
     <<"6", "0", " ", ArabicMeem, ArabicTeh, ArabicReh>>,
     <<"6", "0", ".", "5", "x", "7", "0", ",", "5", " ", "1", "6", "0", "m", "2",
       " ", "2", "5", "0">>,
     <<"1", "6", "0", "0", "\n", "2", "5", "0">>}

\* the length of the longest run of digits and points in the text from i on,
\* given the length of the run that ends before i
RECURSIVE longestNumberRun(_, _, _)
longestNumberRun(text, i, run) ==
    IF i > Len(text) THEN run
    ELSE IF isDigit(text[i]) \/ text[i] = "."
         THEN longestNumberRun(text, i + 1, run + 1)
         ELSE Max2(run, longestNumberRun(text, i + 1, 0))

AreaTexts ==
    {text \in AreaExamples
               \cup {Flatten(fragments) :
                        fragments \in UNION {[1..n -> AreaFragments] :
                                                 n \in 0..MaxFragments}} :
        longestNumberRun(text, 1, 0) <= MaxNumberLength}

ExpectedHouseNumbers == {Undefined, Some(7), Some(250)}

areaCall(text, expectedHouseNumber) ==
    [fn |-> "extractAreaFromRegion", text |-> text,
     expectedHouseNumber |-> expectedHouseNumber, returned |-> FALSE,
     result |-> Undefined]

InitArea ==
    /\ InitEditor
    /\ pixels = flatImage
    /\ detections = {NoDetection}
    /\ form = formWith(1, 1, 1, 1, "ltr", Undefined, TRUE)
    /\ \E text \in AreaTexts : \E expected \in ExpectedHouseNumbers :
           call = areaCall(text, expected)

callUnchanged == UNCHANGED <<editorVars, now, detections, pixels, asyncVars, form>>

\* Tesseract.recognize returns the text
RecognizeArea ==
    /\ call.fn = "extractAreaFromRegion"
    /\ ~call.returned
    /\ call' = [call EXCEPT !.returned = TRUE,
                            !.result = areaFromText(call.text, call.expectedHouseNumber)]
    /\ callUnchanged

\* the image does not load, or the OCR throws
AreaExtractionFails ==
    /\ call.fn = "extractAreaFromRegion"
    /\ ~call.returned
    /\ call' = [call EXCEPT !.returned = TRUE, !.result = Undefined, !.text = <<>>]
    /\ callUnchanged

NextArea ==
    \/ RecognizeArea
    \/ AreaExtractionFails

SpecArea == InitArea /\ [][NextArea]_vars

(***************************************************************************)
(* SpecSimplify: simplifyPolygon on lists of points of a small grid.        *)
(***************************************************************************)
\* the coordinates of the points given to simplifyPolygon and calculateArea: the
\* ones roundingResidue is exact for
Coordinates == 0..2

GridPoints == Coordinates \X Coordinates

PointLists == UNION {[1..n -> GridPoints] : n \in 2..MaxPoints}

\* the squares of the values of epsilon: 0, 1 and the diagonal of the grid
EpsilonsSquared == {RInt(0), RInt(1), RInt(8)}

simplifyCall(points, epsilonSq) ==
    [fn |-> "simplifyPolygon", points |-> points, epsilonSq |-> epsilonSq,
     returned |-> FALSE, result |-> <<>>]

InitSimplify ==
    /\ InitEditor
    /\ pixels = flatImage
    /\ detections = {NoDetection}
    /\ form = formWith(1, 1, 1, 1, "ltr", Undefined, TRUE)
    /\ \E points \in PointLists : \E epsilonSq \in EpsilonsSquared :
           call = simplifyCall(points, epsilonSq)

\* simplifyPolygon(points, epsilon) returns
Simplify ==
    /\ call.fn = "simplifyPolygon"
    /\ ~call.returned
    /\ call' = [call EXCEPT !.returned = TRUE,
                            !.result = simplifyPolygon(call.points, call.epsilonSq)]
    /\ callUnchanged

NextSimplify == Simplify

SpecSimplify == InitSimplify /\ [][NextSimplify]_vars

(***************************************************************************)
(* SpecPolygonArea: calculateArea of the label panel on lists of points.    *)
(***************************************************************************)
\* the loop of calculateArea from index i on: area += x_i * y_j; area -= x_j * y_i
RECURSIVE shoelace(_, _, _)
shoelace(points, i, area) ==
    IF i >= Len(points) THEN area
    ELSE LET j == (i + 1) % Len(points)
         IN  shoelace(points, i + 1,
                      area + points[i + 1][1] * points[j + 1][2]
                           - points[j + 1][1] * points[i + 1][2])

\* the shoelace sum without the edge from the last point back to the first
calculateAreaOpen(points) ==
    IF Len(points) < 3 THEN RInt(0)
    ELSE Rat(Abs(shoelace(points, 0, 0)
                 - (points[Len(points)][1] * points[1][2]
                    - points[1][1] * points[Len(points)][2])), 2)

\* calculateArea(points): Math.abs(area / 2)
calculateArea(points) ==
    IF Len(points) < 3 THEN RInt(0) ELSE Rat(Abs(shoelace(points, 0, 0)), 2)

AreaPointLists == UNION {[1..n -> GridPoints] : n \in 0..MaxPoints}

polygonAreaCall(points) ==
    [fn |-> "calculateArea", points |-> points, returned |-> FALSE, result |-> RInt(0)]

InitPolygonArea ==
    /\ InitEditor
    /\ pixels = flatImage
    /\ detections = {NoDetection}
    /\ form = formWith(1, 1, 1, 1, "ltr", Undefined, TRUE)
    /\ \E points \in AreaPointLists : call = polygonAreaCall(points)

\* the label panel renders: pixelArea = calculateArea(label.points)
CalculateArea ==
    /\ call.fn = "calculateArea"
    /\ ~call.returned
    /\ call' = [call EXCEPT !.returned = TRUE, !.result = calculateArea(call.points)]
    /\ callUnchanged

NextPolygonArea == CalculateArea

SpecPolygonArea == InitPolygonArea /\ [][NextPolygonArea]_vars

(***************************************************************************)
(* SpecSample: sampleColorFromRegion on images with an alpha channel.       *)
(***************************************************************************)
RFloor(r) == r.n \div r.d

RCeil(r) == -((-r.n) \div r.d)

RECURSIVE RSeqMin(_)
RSeqMin(t) == IF Len(t) = 1 THEN t[1] ELSE RMin(t[1], RSeqMin(Tail(t)))

RECURSIVE RSeqMax(_)
RSeqMax(t) == IF Len(t) = 1 THEN t[1] ELSE RMax(t[1], RSeqMax(Tail(t)))

\* the bounding box of the polygon, clamped to the image
clampedBox(points, imageWidth, imageHeight) ==
    LET xs == [i \in DOMAIN points |-> points[i].x]
        ys == [i \in DOMAIN points |-> points[i].y]
    IN  [minX |-> Max2(0, RFloor(RSeqMin(xs))),
         maxX |-> Min2(imageWidth, RCeil(RSeqMax(xs))),
         minY |-> Max2(0, RFloor(RSeqMin(ys))),
         maxY |-> Min2(imageHeight, RCeil(RSeqMax(ys)))]

\* width <= 0 || height <= 0; without points Math.min() is Infinity and the width
\* is -Infinity
emptyBox(points, imageWidth, imageHeight) ==
    \/ points = <<>>
    \/ LET box == clampedBox(points, imageWidth, imageHeight)
       IN  box.maxX - box.minX <= 0 \/ box.maxY - box.minY <= 0

\* the pixel at index k of getImageData(minX, minY, width, height), row by row
boxPosition(box, k) ==
    <<box.minX + (k % (box.maxX - box.minX)),
      box.minY + (k \div (box.maxX - box.minX))>>

\* if (alpha >= 128)
countsPixelInclusive(pixel) == pixel[4] >= 128

\* if (alpha > 128)
countsPixel(pixel) == pixel[4] > 128

\* the loop over every 4th pixel: for (let i = 0; i < pixels.length; i += 16)
RECURSIVE sampleSums(_, _, _, _)
sampleSums(image, box, k, sums) ==
    IF k >= (box.maxX - box.minX) * (box.maxY - box.minY) THEN sums
    ELSE LET pixel == image[boxPosition(box, k)]
         IN  sampleSums(image, box, k + 4,
                        IF countsPixel(pixel)
                        THEN [r |-> sums.r + pixel[1], g |-> sums.g + pixel[2],
                              b |-> sums.b + pixel[3], count |-> sums.count + 1]
                        ELSE sums)

HexDigits ==
    <<"0", "1", "2", "3", "4", "5", "6", "7", "8", "9", "a", "b", "c", "d", "e", "f">>

\* the digits of n.toString(16), most significant first
RECURSIVE toString16(_)
toString16(n) ==
    IF n < 16 THEN <<HexDigits[n + 1]>>
    ELSE toString16(n \div 16) \o <<HexDigits[(n % 16) + 1]>>

\* n.toString(16).padStart(2, '0')
toHex(n) ==
    LET digits == toString16(n)
    IN  IF Len(digits) < 2 THEN <<"0">> \o digits ELSE digits

\* sampleColorFromRegion once the image is drawn on the canvas
sampleColor(image, points, imageWidth, imageHeight) ==
    IF emptyBox(points, imageWidth, imageHeight) THEN Undefined
    ELSE LET box  == clampedBox(points, imageWidth, imageHeight)
             sums == sampleSums(image, box, 0, [r |-> 0, g |-> 0, b |-> 0, count |-> 0])
         IN  IF sums.count = 0 THEN Undefined
             ELSE Some(<<"#">> \o toHex(RRound(Rat(sums.r, sums.count)))
                               \o toHex(RRound(Rat(sums.g, sums.count)))
                               \o toHex(RRound(Rat(sums.b, sums.count))))

opaqueImage == [p \in Positions |-> <<40 * p[1], 50 * p[2], 7 * (p[1] + p[2]), 255>>]

transparentImage == [p \in Positions |-> <<255, 0, 0, 0>>]

\* red on the left, the right half at the alpha threshold
halfRedImage ==
    [p \in Positions |-> IF 2 * p[1] < ImageWidth THEN <<255, 0, 0, 255>>
                         ELSE <<0, 0, 255, 128>>]

\* alpha just below, at and just above the threshold
thresholdImage ==
    [p \in Positions |-> <<40 * p[1], 50 * p[2], 9, 127 + ((p[1] + 2 * p[2]) % 3)>>]

SampleImages == {opaqueImage, transparentImage, halfRedImage, thresholdImage}

SamplePoints ==
    {Pt(x, y) : x \in {RInt(-1), Rat(1, 2), Rat(5, 2), RInt(4), RInt(ImageWidth + 1)},
                y \in {Rat(-1, 2), RInt(1), Rat(7, 2), RInt(ImageHeight + 1)}}

SamplePointLists == UNION {[1..n -> SamplePoints] : n \in 0..2}

sampleCall(image, points) ==
    [fn |-> "sampleColorFromRegion", image |-> image, points |-> points,
     returned |-> FALSE, drawn |-> FALSE, result |-> Undefined]

InitSample ==
    /\ InitEditor
    /\ pixels = flatImage
    /\ detections = {NoDetection}
    /\ form = formWith(1, 1, 1, 1, "ltr", Undefined, TRUE)
    /\ \E image \in SampleImages : \E points \in SamplePointLists :
           call = sampleCall(image, points)

\* the image loads and the canvas is read
SampleColor ==
    /\ call.fn = "sampleColorFromRegion"
    /\ ~call.returned
    /\ call' = [call EXCEPT !.returned = TRUE,
                            !.drawn = ~emptyBox(call.points, ImageWidth, ImageHeight),
                            !.result = sampleColor(call.image, call.points,
                                                   ImageWidth, ImageHeight)]
    /\ callUnchanged

\* not on the web, no 2d context, or the image does not load: null
SampleFails ==
    /\ call.fn = "sampleColorFromRegion"
    /\ ~call.returned
    /\ call' = [call EXCEPT !.returned = TRUE, !.result = Undefined]
    /\ callUnchanged

NextSample ==
    \/ SampleColor
    \/ SampleFails

SpecSample == InitSample /\ [][NextSample]_vars

(***************************************************************************)
(* SpecDrag: labels are drawn and their points dragged in edit mode.        *)
(***************************************************************************)
\* Math.abs(a - b) < 1
withinOne(a, b) == RLt(RInt(-1), RSub(a, b)) /\ RLt(RSub(a, b), RInt(1))

\* the label handlePointDrag returns for a label with the given id
draggedLabel(label, pointIndex, newPosition, time) ==
    LET newPoints == [label.points EXCEPT ![pointIndex + 1] = newPosition]
        lastPoint == newPoints[Len(newPoints)]
        closed    == /\ pointIndex = 0
                     /\ Len(newPoints) > 1
                     /\ withinOne(lastPoint.x, label.points[1].x)
                     /\ withinOne(lastPoint.y, label.points[1].y)
        points    == IF closed THEN [newPoints EXCEPT ![Len(newPoints)] = newPosition]
                     ELSE newPoints
    IN  [f \in DOMAIN label \cup {"updatedAt"} |->
            IF f = "points" THEN points
            ELSE IF f = "updatedAt" THEN time
            ELSE label[f]]

\* labels.map(label => label.id !== labelId ? label : ...)
draggedLabels(labels, labelId, pointIndex, newPosition, time) ==
    [i \in DOMAIN labels |->
        IF labels[i].id # labelId THEN labels[i]
        ELSE draggedLabel(labels[i], pointIndex, newPosition, time)]

handlePointDrag(labelId, pointIndex, newPosition) ==
    /\ labelsData' = [labelsData EXCEPT ![selectedImageKey] =
                         draggedLabels(@, labelId, pointIndex, newPosition, now)]
    /\ UNCHANGED <<selectedImageKey, selectedLabelId, mode, drawingPoints, rectStart,
                   rectEnd, showNewLabelModal, showBatchModal, batchSelectionRect,
                   history, magicWandLoading, now, detections, pixels, asyncVars, form>>

\* where the mouse moves a point to: within 1px of the first click, 1px from it, and
\* further away
DragPositions == {Pt(Rat(21, 2), RInt(10)), IPt(11, 10), IPt(20, 20)}

\* the moves of a point so far
dragCount == IF call.fn = "handlePointDrag" THEN call.count ELSE 0

\* the overlay in edit mode: a press on a point of the selected label, then a move
PointDrag ==
    /\ NoModal
    /\ mode = "edit"
    /\ selectedLabelId # Undefined
    /\ dragCount < MaxDrags
    /\ \E i \in DOMAIN labelsData[selectedImageKey] :
           LET label == labelsData[selectedImageKey][i]
           IN  /\ label.id = selectedLabelId[1]
               /\ \E pointIndex \in 0..(Len(label.points) - 1) :
                  \E newPosition \in DragPositions :
                      /\ handlePointDrag(label.id, pointIndex, newPosition)
                      /\ call' = [fn |-> "handlePointDrag", labelId |-> label.id,
                                  label |-> i, pointIndex |-> pointIndex,
                                  newPosition |-> newPosition, count |-> dragCount + 1]

InitDrag ==
    /\ InitEditor
    /\ call = NoCall
    /\ pixels = flatImage
    /\ detections = {NoDetection}
    /\ form = formWith(1, 2, 1, 1, "ltr", Undefined, FALSE)

NextDrag ==
    \/ Tick
    \/ ModeChange
    \/ CanvasClick
    \/ FinishDrawing
    \/ CreateLabel
    \/ PointDrag

SpecDrag == InitDrag /\ [][NextDrag]_vars

(***************************************************************************)
(* SpecStride: the strided sample of a sorted boundary of every length.     *)
(***************************************************************************)
\* a boundary of n points, each named by its place in the angular order
boundaryOf(n) == [i \in 1..n |-> <<i, 0>>]

strideCall(n) ==
    [fn |-> "stridedSample", boundary |-> boundaryOf(n), returned |-> FALSE,
     result |-> <<>>]

InitStride ==
    /\ InitEditor
    /\ pixels = flatImage
    /\ detections = {NoDetection}
    /\ form = formWith(1, 1, 1, 1, "ltr", Undefined, TRUE)
    /\ \E n \in 4..MaxBoundary : call = strideCall(n)

\* the loop that fills simplified
StrideSample ==
    /\ call.fn = "stridedSample"
    /\ ~call.returned
    /\ call' = [call EXCEPT !.returned = TRUE, !.result = stridedSample(call.boundary)]
    /\ callUnchanged

NextStride == StrideSample

SpecStride == InitStride /\ [][NextStride]_vars

(***************************************************************************)
(* SpecImages: undo, the image list, import and the label panel.            *)
(***************************************************************************)
\* prev.slice(0, -1)
Front(s) == SubSeq(s, 1, Len(s) - 1)

\* the uses of undo, the image list, import and the label panel so far
opCount == IF call.fn = "none" THEN 0 ELSE call.count

\* the handler that ran last, and whether it had a snapshot to restore
opCall(fn) == [fn |-> fn, count |-> opCount + 1, restored |-> history # <<>>]

\* the image the editor shows is one of labelsData.images; the updaters of the
\* label handlers read prev.images[selectedImageKey].labels
imageShown == selectedImageKey \in DOMAIN labelsData

handleUndoOldest ==
    /\ IF Len(history) > 0
       THEN /\ labelsData' = history[1]
            /\ history' = Front(history)
       ELSE UNCHANGED <<labelsData, history>>
    /\ UNCHANGED <<selectedImageKey, selectedLabelId, mode, drawingPoints, rectStart,
                   rectEnd, showNewLabelModal, showBatchModal, batchSelectionRect,
                   magicWandLoading, now, detections, pixels, asyncVars, form>>

handleUndo ==
    /\ IF Len(history) > 0
       THEN /\ labelsData' = history[Len(history)]
            /\ history' = Front(history)
       ELSE UNCHANGED <<labelsData, history>>
    /\ UNCHANGED <<selectedImageKey, selectedLabelId, mode, drawingPoints, rectStart,
                   rectEnd, showNewLabelModal, showBatchModal, batchSelectionRect,
                   magicWandLoading, now, detections, pixels, asyncVars, form>>

\* the toolbar's onUndo, and Ctrl+Z
Undo ==
    /\ NoModal
    /\ opCount < MaxOps
    /\ handleUndo
    /\ call' = opCall("handleUndo")

\* the names of the images a user uploads: one that is there and a new one
ImageNames == {"upload", "scan"}

handleAddImage(name) ==
    /\ saveHistory
    /\ labelsData' = [key \in DOMAIN labelsData \cup {name} |->
                         IF key = name THEN <<>> ELSE labelsData[key]]
    /\ selectedImageKey' = name
    /\ selectedLabelId' = Undefined
    /\ UNCHANGED <<mode, drawingPoints, rectStart, rectEnd, showNewLabelModal,
                   showBatchModal, batchSelectionRect, magicWandLoading, now, detections,
                   pixels, asyncVars, form>>

\* AddImageModal's onConfirm
AddImage ==
    /\ NoModal
    /\ opCount < MaxOps
    /\ \E name \in ImageNames : handleAddImage(name)
    /\ call' = opCall("handleAddImage")

\* handleDeleteImage with window.confirm answered yes; Object.keys(newImages)[0] is
\* the image inserted first, which is any of those left
handleDeleteImage(imageKey) ==
    /\ Cardinality(DOMAIN labelsData) > 1
    /\ saveHistory
    /\ labelsData' = [key \in DOMAIN labelsData \ {imageKey} |-> labelsData[key]]
    /\ IF selectedImageKey = imageKey
       THEN /\ selectedImageKey' \in DOMAIN labelsData \ {imageKey}
            /\ selectedLabelId' = Undefined
       ELSE UNCHANGED <<selectedImageKey, selectedLabelId>>
    /\ UNCHANGED <<mode, drawingPoints, rectStart, rectEnd, showNewLabelModal,
                   showBatchModal, batchSelectionRect, magicWandLoading, now, detections,
                   pixels, asyncVars, form>>

\* the image selector's onDeleteImage
DeleteImage ==
    /\ NoModal
    /\ opCount < MaxOps
    /\ \E imageKey \in DOMAIN labelsData : handleDeleteImage(imageKey)
    /\ call' = opCall("handleDeleteImage")

\* a label of an imported file
importedLabel ==
    [id          |-> "imported",
     type        |-> "residential",
     points      |-> <<IPt(0, 0), IPt(10, 0), IPt(10, 10), IPt(0, 0)>>,
     blockNumber |-> <<"G">>,
     houseNumber |-> "1",
     color       |-> "#4A90D9",
     area        |-> Undefined,
     createdAt   |-> 0,
     made        |-> madeBy(0, 0, 0, NoDetection)]

\* data.images of the files a user imports
ImportedImages ==
    {[key \in {"plan"} |-> <<importedLabel>>], [key \in {"scan"} |-> <<>>]}

\* reader.onload of handleImport
handleImport(images) ==
    /\ saveHistory
    /\ labelsData' = images
    /\ selectedImageKey' \in DOMAIN images
    /\ selectedLabelId' = Undefined
    /\ UNCHANGED <<mode, drawingPoints, rectStart, rectEnd, showNewLabelModal,
                   showBatchModal, batchSelectionRect, magicWandLoading, now, detections,
                   pixels, asyncVars, form>>

Import ==
    /\ NoModal
    /\ opCount < MaxOps
    /\ \E images \in ImportedImages : handleImport(images)
    /\ call' = opCall("handleImport")

\* handleLabelPress outside delete mode
handleLabelPress(labelId) ==
    /\ mode # "delete"
    /\ selectedLabelId' = Some(labelId)
    /\ UNCHANGED <<labelsData, selectedImageKey, mode, drawingPoints, rectStart, rectEnd,
                   showNewLabelModal, showBatchModal, batchSelectionRect, history,
                   magicWandLoading, now, detections, pixels, asyncVars, form>>

LabelPress ==
    /\ NoModal
    /\ imageShown
    /\ opCount < MaxOps
    /\ \E i \in DOMAIN labelsData[selectedImageKey] :
           /\ selectedLabelId # Some(labelsData[selectedImageKey][i].id)
           /\ handleLabelPress(labelsData[selectedImageKey][i].id)
    /\ call' = opCall("handleLabelPress")

\* what the label panel changes
LabelUpdates == {[houseNumber |-> "8"]}

\* { ...label, ...updates, updatedAt }
updatedLabel(label, updates, time) ==
    [f \in DOMAIN label \cup DOMAIN updates \cup {"updatedAt"} |->
        IF f = "updatedAt" THEN time
        ELSE IF f \in DOMAIN updates THEN updates[f]
        ELSE label[f]]

handleUpdateLabel(updates) ==
    /\ selectedLabelId # Undefined
    /\ saveHistory
    /\ labelsData' = [labelsData EXCEPT ![selectedImageKey] =
                         [i \in DOMAIN @ |->
                             IF @[i].id = selectedLabelId[1]
                             THEN updatedLabel(@[i], updates, now) ELSE @[i]]]
    /\ UNCHANGED <<selectedImageKey, selectedLabelId, mode, drawingPoints, rectStart,
                   rectEnd, showNewLabelModal, showBatchModal, batchSelectionRect,
                   magicWandLoading, now, detections, pixels, asyncVars, form>>

\* the label panel's onUpdate
UpdateLabel ==
    /\ NoModal
    /\ imageShown
    /\ opCount < MaxOps
    /\ \E updates \in LabelUpdates : handleUpdateLabel(updates)
    /\ call' = opCall("handleUpdateLabel")

\* handleDeleteLabel() with the confirmation answered yes
handleDeleteLabel ==
    /\ selectedLabelId # Undefined
    /\ saveHistory
    /\ labelsData' = [labelsData EXCEPT ![selectedImageKey] =
                         SelectSeq(@, LAMBDA l : l.id # selectedLabelId[1])]
    /\ selectedLabelId' = Undefined
    /\ UNCHANGED <<selectedImageKey, mode, drawingPoints, rectStart, rectEnd,
                   showNewLabelModal, showBatchModal, batchSelectionRect,
                   magicWandLoading, now, detections, pixels, asyncVars, form>>

\* the label panel's onDelete
DeleteLabel ==
    /\ NoModal
    /\ imageShown
    /\ opCount < MaxOps
    /\ handleDeleteLabel
    /\ call' = opCall("handleDeleteLabel")

\* the modals of a new label and of a batch on the image that is shown
CreateShownLabel ==
    /\ showNewLabelModal
    /\ imageShown
    /\ opCount < MaxOps
    /\ labelCount < MaxLabels
    /\ \E labelData \in NewLabelForms : handleCreateLabel(labelData)
    /\ call' = opCall("handleCreateLabel")

CreateShownBatch ==
    /\ showBatchModal
    /\ imageShown
    /\ opCount < MaxOps
    /\ labelCount + form.numRows * form.numCols <= MaxLabels
    /\ handleCreateBatchLabels(configOf(form))
    /\ call' = opCall("handleCreateBatchLabels")

\* the toolbar's polygon button
EnterDrawMode == NoModal /\ mode # "draw" /\ handleModeChange("draw")

\* the snapshots after handleAddImage was given the empty image "upload" n times
uploadedAgain(n) == [i \in 1..n |-> [key \in ImageKeys |-> <<>>]]

\* the editor as it starts, or after the empty image "upload" was uploaded again
\* HistoryKeep times and "plan" was selected
InitHistory ==
    /\ labelsData = [key \in ImageKeys |-> <<>>]
    /\ selectedImageKey = "plan"
    /\ selectedLabelId = Undefined
    /\ mode = "view"
    /\ drawingPoints = <<>>
    /\ rectStart = Undefined
    /\ rectEnd = Undefined
    /\ showNewLabelModal = FALSE
    /\ showBatchModal = FALSE
    /\ batchSelectionRect = Undefined
    /\ history \in {<<>>, uploadedAgain(HistoryKeep)}
    /\ magicWandLoading = FALSE
    /\ now = 0
    /\ batches = <<>>
    /\ batchLog = <<>>
    /\ wand = idleWand
    /\ call = NoCall
    /\ pixels = flatImage
    /\ detections = {NoDetection}
    /\ form = formWith(1, 2, 1, 1, "ltr", Undefined, FALSE)

NextHistory ==
    \/ SelectImage
    \/ Undo
    \/ AddImage
    \/ DeleteImage
    \/ Import

SpecHistory == InitHistory /\ [][NextHistory]_vars

InitImages ==
    /\ InitEditor
    /\ call = NoCall
    /\ pixels = flatImage
    /\ detections = {NoDetection}
    /\ form = formWith(1, 2, 1, 1, "ltr", Undefined, FALSE)

NextImages ==
    \/ SelectImage
    \/ Undo
    \/ AddImage
    \/ DeleteImage
    \/ Import
    \/ LabelPress
    \/ UpdateLabel
    \/ DeleteLabel
    \/ EnterDrawMode
    \/ CanvasClick
    \/ FinishDrawing
    \/ CreateShownLabel
    \/ EnterBatchMode
    \/ BatchSelectionEnd
    \/ CreateShownBatch

SpecImages == InitImages /\ [][NextImages]_vars

(***************************************************************************)
(* SpecInFlight: one batch with detections, and the user at work meanwhile.  *)
(***************************************************************************)
InitInFlight ==
    /\ InitEditor
    /\ call = NoCall
    /\ pixels = flatImage
    /\ detections = {[color |-> Some("#ff0000"), area |-> Some(240)]}
    /\ form = formWith(1, 2, 1, 1, "ltr", Undefined, TRUE)

NextInFlight ==
    \/ EnterBatchMode
    \/ BatchSelectionEnd
    \/ ConfirmBatch
    \/ ResumeBatch
    \/ SelectImage
    \/ DeleteImage
    \/ EnterDrawMode
    \/ CanvasClick
    \/ FinishDrawing
    \/ CreateShownLabel
    \/ LabelPress
    \/ DeleteLabel

SpecInFlight == InitInFlight /\ [][NextInFlight]_vars

(***************************************************************************)
(* SpecKeys: drawing with the mouse, the toolbar and the keyboard.          *)
(***************************************************************************)
\* the mode each shortcut sets
ModeKeys ==
    [v |-> "view", e |-> "edit", p |-> "draw", r |-> "draw-rect", b |-> "batch",
     w |-> "magic-wand"]

\* the keys handleKeyDown acts on, but for undo, zoom and space
Keys == DOMAIN ModeKeys \cup {"d", "escape", "enter"}

\* handleKeyDown for a key pressed outside an input
handleKeyDown(key) ==
    /\ mode' = IF key \in DOMAIN ModeKeys THEN ModeKeys[key]
               ELSE IF key = "d" /\ selectedLabelId = Undefined THEN "delete"
               ELSE IF key = "escape" THEN "view"
               ELSE mode
    /\ drawingPoints' = IF key = "escape" THEN <<>> ELSE drawingPoints
    /\ rectStart' = IF key = "escape" THEN Undefined ELSE rectStart
    /\ rectEnd' = IF key = "escape" THEN Undefined ELSE rectEnd
    /\ batchSelectionRect' = IF key = "escape" THEN Undefined ELSE batchSelectionRect
    /\ selectedLabelId' = IF key = "escape" THEN Undefined ELSE selectedLabelId
    /\ showNewLabelModal' = IF key = "enter" /\ mode = "draw" /\ Len(drawingPoints) >= 3
                            THEN TRUE ELSE showNewLabelModal
    /\ UNCHANGED <<labelsData, selectedImageKey, showBatchModal, history,
                   magicWandLoading, envVars, asyncVars, form>>

KeyDown == \E key \in Keys : handleKeyDown(key)

InitKeys ==
    /\ InitEditor
    /\ call = NoCall
    /\ pixels = flatImage
    /\ detections = {NoDetection}
    /\ form = formWith(1, 2, 1, 1, "ltr", Undefined, FALSE)

NextKeys ==
    \/ ModeChange
    \/ KeyDown
    \/ CanvasClick
    \/ FinishDrawing
    \/ CancelDrawing
    \/ RectDrawStart
    \/ RectDrawEnd
    \/ CreateLabel
    \/ NewLabelClose

SpecKeys == InitKeys /\ [][NextKeys]_vars

(***************************************************************************)
(* SpecCells: getCellBounds on grids with dividers of every kind.           *)
(***************************************************************************)
\* divider fractions: inside (0, 1) and on its border
CellFractions == {Rat(1, 4), Rat(1, 2), Rat(3, 4), RInt(1)}

\* config.columnDividers or config.rowDividers for n columns or rows: absent, or
\* n - 1 fractions in any order
CellDividers(n) == {Undefined} \cup {Some(d) : d \in [1..(n - 1) -> CellFractions]}

CellRects ==
    {[start |-> IPt(0, 0), end |-> IPt(48, 24)],
     [start |-> Pt(Rat(21, 2), RInt(5)), end |-> IPt(40, 30)]}

cellsCall(config, rect) ==
    [fn |-> "getCellBounds", config |-> config, rect |-> rect, returned |-> FALSE,
     result |-> <<>>]

InitCells ==
    /\ InitEditor
    /\ pixels = flatImage
    /\ detections = {NoDetection}
    /\ form = formWith(1, 1, 1, 1, "ltr", Undefined, FALSE)
    /\ \E rows \in 1..MaxModalRows : \E cols \in 1..MaxCellCols :
       \E rowDividers \in CellDividers(rows) : \E columnDividers \in CellDividers(cols) :
       \E rect \in CellRects :
           call = cellsCall([configOf(formWith(rows, cols, 1, 1, "ltr", Undefined, FALSE))
                                 EXCEPT !.rowDividers = rowDividers,
                                        !.columnDividers = columnDividers],
                            rect)

\* the loops of handleCreateBatchLabels call getCellBounds for every cell
CellBounds ==
    /\ call.fn = "getCellBounds"
    /\ ~call.returned
    /\ call' = [call EXCEPT
                   !.returned = TRUE,
                   !.result = [row \in 0..(call.config.rows - 1) |->
                                  [col \in 0..(call.config.cols - 1) |->
                                      getCellBounds(call.config, call.rect, row, col)]]]
    /\ callUnchanged

NextCells == CellBounds

SpecCells == InitCells /\ [][NextCells]_vars

(***************************************************************************)
(* SpecWand: the magic wand on one of several images.                       *)
(***************************************************************************)
InitWand ==
    /\ InitEditor
    /\ call = NoCall
    /\ pixels \in Images
    /\ detections = {NoDetection}
    /\ form \in {formWith(1, 2, 1, 1, "ltr", Undefined, FALSE)}

\* the fill loop and the rest of handleMagicWandClick run without a break once
\* the image has loaded
NextWand ==
    \/ /\ wand.phase # "filling"
       /\ \/ ModeChange
          \/ MagicWandClick
          \/ WandImageFails
          \/ WandImageLoads
          \/ NewLabelClose
    \/ FillStep
    \/ WandReturns

SpecWand == InitWand /\ [][NextWand]_vars

\* the fill loop, once entered, keeps running
SpecWandFair == SpecWand /\ WF_vars(FillStep)

(***************************************************************************)
(* Properties of label creation, checked under Spec.                        *)
(***************************************************************************)
\* the labels of batch n among the labels ls
batchLabelsIn(ls, n) == Cardinality({i \in DOMAIN ls : ls[i].made.batch = n})

\* batch n is still waiting at an await
inFlight(n) == \E i \in DOMAIN batches : batches[i].no = n

batchCells(log, n) == log[n].config.rows * log[n].config.cols

AllOrNothingState ==
    \A n \in DOMAIN batchLog : \A key \in ImageKeys :
        /\ batchLabelsIn(labelsData[key], n) \in {0, batchCells(batchLog, n)}
        /\ inFlight(n) => batchLabelsIn(labelsData[key], n) = 0
        /\ ~inFlight(n) =>
               batchLabelsIn(labelsData[key], n) =
                   IF key = batchLog[n].key THEN batchCells(batchLog, n) ELSE 0

AllOrNothingStep ==
    \A n \in DOMAIN batchLog' : \A key \in ImageKeys :
        (batchLabelsIn(labelsData[key], n) = 0 /\ batchLabelsIn(labelsData'[key], n) > 0) =>
            LET old == Len(labelsData[key])
                new == Len(labelsData'[key])
            IN  /\ key = batchLog'[n].key
                /\ new = old + batchCells(batchLog', n)
                /\ SubSeq(labelsData'[key], 1, old) = labelsData[key]
                /\ \A j \in (old + 1)..new : labelsData'[key][j].made.batch = n
                /\ \A other \in ImageKeys \ {key} : labelsData'[other] = labelsData[other]

\* C1: a batch's labels enter its image in one update: in every state an image
\* holds none of a batch's labels or all rows x cols of them, none while the batch
\* still awaits a cell and all once it has finished; the step that adds them
\* appends exactly rows x cols labels of the batch after the labels the image had,
\* which stay as they were, and touches no other image.
C1_BatchAllOrNothing == []AllOrNothingState /\ [][AllOrNothingStep]_vars

\* a finished batch of more than one cell sits behind a label its image had before
C1_Witness ==
    \E key \in ImageKeys : \E i, j \in DOMAIN labelsData[key] :
        /\ i < j
        /\ labelsData[key][i].made.batch = 0
        /\ labelsData[key][j].made.batch # 0
        /\ batchCells(batchLog, labelsData[key][j].made.batch) > 1
        /\ batchLog[labelsData[key][j].made.batch].config.autoDetectColor

\* what a batch label's colour and area must be, given what the detections of its
\* own cell returned
BestEffortLabel(l) ==
    l.made.batch # 0 =>
        LET config == batchLog[l.made.batch].config
            det    == l.made.det
        IN  /\ l.color = IF config.autoDetectColor /\ det.color # Undefined
                         THEN det.color[1] ELSE config.color
            /\ l.area = IF config.autoDetectArea /\ det.area # Undefined
                        THEN det.area ELSE Undefined
            /\ (det.area = Undefined) => l.area # Some(0)

\* C2: a detection that fails or finds nothing for a cell costs only that cell's
\* attribute: every batch label, stored or still pending, has the configured
\* colour when its own cell's colour sampling failed and no area (never 0) when its
\* own cell's area extraction failed, and the detected values otherwise; every
\* cell processed so far has its label, and a finished batch has all rows x cols.
C2_DetectionBestEffort ==
    /\ \A key \in ImageKeys : \A i \in DOMAIN labelsData[key] :
           BestEffortLabel(labelsData[key][i])
    /\ \A i \in DOMAIN batches :
           /\ Len(batches[i].newLabels) = batches[i].cell
           /\ \A j \in DOMAIN batches[i].newLabels : BestEffortLabel(batches[i].newLabels[j])
    /\ \A n \in DOMAIN batchLog :
           ~inFlight(n) =>
               batchLabelsIn(labelsData[batchLog[n].key], n) = batchCells(batchLog, n)

\* a finished batch in which both detections failed for one cell and succeeded for
\* another
C2_Witness ==
    \E key \in ImageKeys : \E i, j \in DOMAIN labelsData[key] :
        LET a == labelsData[key][i]
            b == labelsData[key][j]
        IN  /\ a.made.batch # 0
            /\ a.made.batch = b.made.batch
            /\ batchLog[a.made.batch].config.autoDetectColor
            /\ batchLog[a.made.batch].config.autoDetectArea
            /\ a.made.det = NoDetection
            /\ a.color = batchLog[a.made.batch].config.color
            /\ a.area = Undefined
            /\ b.made.det.color # Undefined
            /\ b.made.det.area # Undefined
            /\ b.area = b.made.det.area

\* C6: no two labels of an image have the same id.
C6_IdsUniqueInImage ==
    \A key \in ImageKeys : \A i, j \in DOMAIN labelsData[key] :
        i # j => labelsData[key][i].id # labelsData[key][j].id

ClosedRing(points) == Len(points) >= 4 /\ points[1] = points[Len(points)]

\* C8: every label that handleCreateLabel or a batch has built, stored in an image
\* or still pending in a batch, is a closed ring: its last point is its first point
\* and it has at least 4 points.
C8_LabelsAreClosedRings ==
    /\ \A key \in ImageKeys : \A i \in DOMAIN labelsData[key] :
           ClosedRing(labelsData[key][i].points)
    /\ \A i \in DOMAIN batches : \A j \in DOMAIN batches[i].newLabels :
           ClosedRing(batches[i].newLabels[j].points)

\* an image holds a drawn label and a batch label
C8_Witness ==
    \E key \in ImageKeys : \E i, j \in DOMAIN labelsData[key] :
        /\ labelsData[key][i].made.batch = 0
        /\ Len(labelsData[key][i].points) = 4
        /\ labelsData[key][j].made.batch # 0
        /\ Len(labelsData[key][j].points) = 5

(***************************************************************************)
(* Properties of a batch's ids and house numbers, checked under SpecBatch.  *)
(***************************************************************************)
\* the labels of all images and of all batches still in flight
builtLabels ==
    Range(Flatten([i \in DOMAIN batches |-> batches[i].newLabels]))
        \cup UNION {Range(labelsData[key]) : key \in ImageKeys}

\* C7: two labels of one batch that were built for different cells have different
\* ids, whatever the grid and the config, also when they carry the same timestamp
\* and the same house number.
C7_BatchIdsDistinct ==
    \A a, b \in builtLabels :
        (/\ a.made.batch # 0
         /\ a.made.batch = b.made.batch
         /\ <<a.made.row, a.made.col>> # <<b.made.row, b.made.col>>) => a.id # b.id

\* a finished batch holds two labels with the same house number and timestamp
C7_Witness ==
    \E key \in ImageKeys : \E i, j \in DOMAIN labelsData[key] :
        LET a == labelsData[key][i]
            b == labelsData[key][j]
        IN  /\ i # j
            /\ a.made.batch # 0
            /\ a.made.batch = b.made.batch
            /\ a.houseNumber = b.houseNumber
            /\ a.createdAt = b.createdAt
            /\ a.id # b.id

\* the first even and the first odd number that is at least n
firstEvenAtLeast(n) == IF n % 2 = 0 THEN n ELSE n + 1

firstOddAtLeast(n) == IF n % 2 = 1 THEN n ELSE n + 1

\* what evens-odds and odds-evens promise for a cell of a 2-row grid
parityHouseNumber(config, row, col) ==
    LET evenRow == IF config.numberingOrder = "evens-odds" THEN 0 ELSE 1
        first   == IF row = evenRow
                   THEN firstEvenAtLeast(config.startHouseNumber)
                   ELSE firstOddAtLeast(config.startHouseNumber)
    IN  first + col * 2 * config.houseNumberIncrement

\* C10: on a 2-row grid without custom sequence, evens-odds gives every row-0
\* cell the first even number >= startHouseNumber plus col * 2 * increment and
\* every row-1 cell the first odd number >= startHouseNumber plus
\* col * 2 * increment; odds-evens swaps the rows.
C10_EvensOddsNumbering ==
    \A l \in builtLabels :
        l.made.batch # 0 =>
            LET config == batchLog[l.made.batch].config
            IN  (/\ config.numberingOrder \in {"evens-odds", "odds-evens"}
                 /\ config.rows = 2
                 /\ ~config.useCustomSequence) =>
                    l.houseNumber =
                        ToString(parityHouseNumber(config, l.made.row, l.made.col))

\* the labels of batch n in the list ls, in the list's order
batchLabelsOf(ls, n) == SelectSeq(ls, LAMBDA l : l.made.batch = n)

\* the house numbers of the labels of ls
houseNumbersOf(ls) == [i \in DOMAIN ls |-> ls[i].houseNumber]

\* the finished batches with the given grid, order and custom sequence, start 1
\* and increment 1
finishedWith(rows, cols, order, custom) ==
    {n \in DOMAIN batchLog :
        /\ batchLog[n].config.rows = rows
        /\ batchLog[n].config.cols = cols
        /\ batchLog[n].config.numberingOrder = order
        /\ batchLog[n].config.customSequence = custom
        /\ batchLog[n].config.startHouseNumber = 1
        /\ batchLog[n].config.houseNumberIncrement = 1
        /\ Len(batchLabelsOf(labelsData[batchLog[n].key], n)) = rows * cols}

\* the index of a cell in the snake order
snakeIndex(config, row, col) ==
    IF row % 2 = 0 THEN row * config.cols + col
    ELSE row * config.cols + (config.cols - 1 - col)

\* C11: with boustrophedon and no custom sequence a cell of an even row gets
\* start + (row * cols + col) * increment and a cell of an odd row gets
\* start + (row * cols + (cols - 1 - col)) * increment; the 2 x 3 grid with
\* start 1 and increment 1 is numbered 1 2 3 6 5 4 in row-major order.
C11_Boustrophedon ==
    /\ \A l \in builtLabels :
           l.made.batch # 0 =>
               LET config == batchLog[l.made.batch].config
               IN  (config.numberingOrder = "boustrophedon" /\ ~config.useCustomSequence) =>
                       l.houseNumber =
                           ToString(config.startHouseNumber
                                    + snakeIndex(config, l.made.row, l.made.col)
                                      * config.houseNumberIncrement)
    /\ \A n \in finishedWith(2, 3, "boustrophedon", Undefined) :
           houseNumbersOf(batchLabelsOf(labelsData[batchLog[n].key], n))
               = <<"1", "2", "3", "6", "5", "4">>

\* the 2 x 3 boustrophedon batch with start 1 and increment 1 has finished
C11_Witness == finishedWith(2, 3, "boustrophedon", Undefined) # {}

\* the index the numbering orders promise for a cell
orderIndex(config, row, col) ==
    LET rows == config.rows
        cols == config.cols
    IN  CASE config.numberingOrder = "rtl" -> row * cols + (cols - 1 - col)
          [] config.numberingOrder = "boustrophedon" -> snakeIndex(config, row, col)
          [] config.numberingOrder = "col-ltr" -> col * rows + row
          [] config.numberingOrder = "col-rtl" -> (cols - 1 - col) * rows + row
          [] OTHER -> row * cols + col

\* C12 as stated: whenever useCustomSequence is set, the house number of a cell
\* is the element of customSequence at its order's index, cycling.
C12_CustomSequenceAlways ==
    \A l \in builtLabels :
        l.made.batch # 0 =>
            LET config == batchLog[l.made.batch].config
                seq    == config.customSequence[1]
            IN  config.useCustomSequence =>
                    \E k \in DOMAIN seq :
                        /\ k = (orderIndex(config, l.made.row, l.made.col) % Len(seq)) + 1
                        /\ l.houseNumber = ToString(seq[k])

\* C12: when useCustomSequence is set and the sequence is not empty, the house
\* number of a cell is customSequence[index mod length] with the index of the
\* numbering order, and <<3, 5, 6>> on a 2 x 3 ltr grid gives 3 5 6 3 5 6; with an
\* empty sequence the cell is numbered as without custom sequence.
C12_CustomSequenceCycles ==
    /\ \A l \in builtLabels :
           l.made.batch # 0 =>
               LET config == batchLog[l.made.batch].config
                   seq    == config.customSequence[1]
                   plain  == [config EXCEPT !.useCustomSequence = FALSE,
                                            !.customSequence = Undefined]
               IN  config.useCustomSequence =>
                       IF Len(seq) > 0
                       THEN l.houseNumber =
                                ToString(seq[(orderIndex(config, l.made.row, l.made.col)
                                              % Len(seq)) + 1])
                       ELSE l.houseNumber =
                                ToString(getHouseNumber(plain, l.made.row, l.made.col))
    /\ \A n \in finishedWith(2, 3, "ltr", Some(<<3, 5, 6>>)) :
           houseNumbersOf(batchLabelsOf(labelsData[batchLog[n].key], n))
               = <<"3", "5", "6", "3", "5", "6">>

\* the 2 x 3 ltr batch with the custom sequence 3 5 6 has finished
C12_Witness == finishedWith(2, 3, "ltr", Some(<<3, 5, 6>>)) # {}

\* C13: without custom sequence the house number of a cell is
\* startHouseNumber + index * increment, with the index of ltr, rtl, col-ltr and
\* col-rtl, and with the ltr index for evens-odds and odds-evens when rows # 2.
C13_IndexedNumbering ==
    \A l \in builtLabels :
        l.made.batch # 0 =>
            LET config == batchLog[l.made.batch].config
            IN  (/\ ~config.useCustomSequence
                 /\ \/ config.numberingOrder \in {"ltr", "rtl", "col-ltr", "col-rtl"}
                    \/ /\ config.numberingOrder \in {"evens-odds", "odds-evens"}
                       /\ config.rows # 2) =>
                    l.houseNumber =
                        ToString(config.startHouseNumber
                                 + orderIndex(config, l.made.row, l.made.col)
                                   * config.houseNumberIncrement)

\* a col-rtl batch on a grid with more columns than rows > 1, a start other than 1
\* and an increment other than 1 has finished
C13_Witness ==
    \E n \in DOMAIN batchLog :
        LET config == batchLog[n].config
        IN  /\ config.numberingOrder = "col-rtl"
            /\ ~config.useCustomSequence
            /\ config.rows > 1
            /\ config.cols > config.rows
            /\ config.startHouseNumber < 0
            /\ config.houseNumberIncrement = 2
            /\ Len(batchLabelsOf(labelsData[batchLog[n].key], n)) = config.rows * config.cols

(***************************************************************************)
(* Properties of the magic wand, checked under SpecWand and SpecWandFair.   *)
(***************************************************************************)
\* a pixel the fill may accept: inside the image, no edge, the seed's colour
qualifies(p, seed) ==
    /\ InBounds(p)
    /\ edgeStrengthSquared(pixels, p[1], p[2])
           <= magicWandEdgeThreshold * magicWandEdgeThreshold
    /\ channelDiff(pixels[p], pixels[seed]) <= magicWandTolerance

adjacent(p, q) == Abs(p[1] - q[1]) + Abs(p[2] - q[2]) = 1

\* the pixels 4-connected to those of S through pixels of Q
RECURSIVE grow(_, _)
grow(S, Q) ==
    LET more == {q \in Q \ S : \E p \in S : adjacent(p, q)}
    IN  IF more = {} THEN S ELSE grow(S \cup more, Q)

component(seed) ==
    IF qualifies(seed, seed)
    THEN grow({seed}, {q \in Positions : qualifies(q, seed)})
    ELSE {}

\* the fill loop has run and has ended
fillEnded ==
    /\ wand.phase \in {"filling", "returned"}
    /\ wand.iters > 0
    /\ (wand.queue = <<>> \/ wand.pixelCount >= maxPixels)

\* C3: every pixel of the region is inside the image, has no edge and has the
\* seed's colour, and is the seed or a 4-neighbour of a pixel that entered the
\* region before it; when the loop ends below the cap, the region is exactly the
\* set of pixels 4-connected to the seed through such pixels.
C3_RegionIsConnectedComponent ==
    /\ \A i \in DOMAIN wand.region :
           /\ qualifies(wand.region[i], wand.seed)
           /\ IF i = 1 THEN wand.region[i] = wand.seed
              ELSE \E j \in 1..(i - 1) : adjacent(wand.region[j], wand.region[i])
    /\ (fillEnded /\ wand.pixelCount < maxPixels) =>
           Range(wand.region) = component(wand.seed)

\* a fill ended below the cap with a region, having turned away a pixel inside
\* the image's border ring
C3_Witness ==
    /\ fillEnded
    /\ wand.pixelCount < maxPixels
    /\ Len(wand.region) >= minRegionSize
    /\ \E p \in wand.visited \ Range(wand.region) :
           /\ p[1] > 0 /\ p[1] < ImageWidth - 1
           /\ p[2] > 0 /\ p[2] < ImageHeight - 1

\* C4 as stated: the fill never marks more than maxPixels pixels as visited.
C4_VisitedWithinCap == Cardinality(wand.visited) <= maxPixels

\* C4: the fill loop ends, the region never has more than maxPixels pixels, and
\* the loop visits at most 4 * maxPixels + 1 pixels: one per iteration at most,
\* and every iteration takes one of the seed and the four neighbours queued for
\* each region pixel.
C4_FillBounded ==
    /\ [](/\ wand.pixelCount <= maxPixels
          /\ Len(wand.region) = wand.pixelCount
          /\ Cardinality(wand.visited) <= wand.iters
          /\ wand.iters + Len(wand.queue) = 4 * wand.pixelCount
                 + (IF wand.phase \in {"filling", "returned"} /\ InBounds(wand.seed)
                       /\ (wand.iters > 0 \/ wand.queue # <<>>) THEN 1 ELSE 0)
          /\ Cardinality(wand.visited) <= 4 * maxPixels + 1)
    /\ (wand.phase = "filling") ~> (wand.phase = "filling" /\ ~fillContinues(wand))

\* a fill stopped by the cap with pixels still queued
C4_Witness ==
    /\ wand.phase = "returned"
    /\ wand.pixelCount = maxPixels
    /\ wand.queue # <<>>
    /\ Cardinality(wand.visited) > maxPixels

\* the seed is outside the image or the region is too small
detectionFails(w) == ~InBounds(w.seed) \/ Len(w.region) < minRegionSize

C5Step ==
    (wand.phase \in {"loading", "filling"} /\ wand'.phase = "returned"
        /\ detectionFails(wand')) =>
        /\ wand'.result = Undefined
        /\ drawingPoints' = drawingPoints
        /\ labelsData' = labelsData
        /\ showNewLabelModal' = showNewLabelModal
        /\ magicWandLoading' = FALSE

\* C5: when the seed is outside the image or the region has fewer than
\* minRegionSize pixels, magicWandSelect returns null, and handleMagicWandClick
\* ends with drawingPoints, the labels and the new-label modal as they were and
\* with magicWandLoading false.
C5_DetectionFailureIsHarmless == [][C5Step]_vars

\* a click inside the image has ended without a polygon: the region was too small
C5_Witness ==
    /\ wand.phase = "returned"
    /\ InBounds(wand.seed)
    /\ wand.region # <<>>
    /\ Len(wand.region) < minRegionSize
    /\ wand.result = Undefined
    /\ ~magicWandLoading
    /\ ~showNewLabelModal

(***************************************************************************)
(* Properties of the batch modal's dividers, checked under SpecDividers.    *)
(***************************************************************************)
\* n - 1 fractions strictly between 0 and 1, strictly increasing
validDividers(dividers, n) ==
    /\ Len(dividers) = n - 1
    /\ \A i \in DOMAIN dividers : RLt(RInt(0), dividers[i]) /\ RLt(dividers[i], RInt(1))
    /\ \A i, j \in DOMAIN dividers : i < j => RLt(dividers[i], dividers[j])

\* C9: whatever was done in the batch modal, the column dividers and the row
\* dividers are strictly increasing fractions strictly between 0 and 1, cols - 1
\* and rows - 1 of them.
C9_DividersValid ==
    /\ validDividers(form.columnDividers, form.numCols)
    /\ validDividers(form.rowDividers, form.numRows)

(***************************************************************************)
(* Properties of the area extraction, checked under SpecArea.               *)
(***************************************************************************)
\* the values of the matches of a pattern that lie in [low, high]
candidates(kind, text, pattern, low, high) ==
    {m.value : m \in {n \in Range(execAll(kind, text, 1, pattern)) :
                          inRange(n.value, low, high)}}

tier1(text) ==
    candidates("unit", text, 1, 50, 10000) \cup candidates("unit", text, 2, 50, 10000)

tier2(text) == candidates("decimal", text, 0, 50, 10000)

tier3(text) == candidates("altDecimal", text, 0, 50, 1000)

\* the bare integers of 2 to 5 digits
bareIntegers(text) == {m.value.n : m \in Range(execAll("wholeNumber", text, 1, 0))}

\* what tier 4 keeps of the bare integers
tier4(text, expected) ==
    LET kept      == {v \in bareIntegers(text) :
                         expected = Undefined \/ Abs(v - expected[1]) > 2}
        tenth(v)  == v % 10 = 0 /\ v >= 1000 /\ v <= 100000
                     /\ v \div 10 >= 100 /\ v <= 10000
        corrected == {IF tenth(v) THEN Rat(v, 10) ELSE RInt(v) : v \in kept}
    IN  {c \in corrected : RLe(RInt(100), c) /\ RLe(c, RInt(10000))}

areaReturned == call.fn = "extractAreaFromRegion" /\ call.returned /\ call.text # <<>>

\* C14: the area comes from the highest tier that has a candidate: a number with
\* a unit in [50, 10000], else a number with a decimal point in [50, 10000], else
\* a number with a misread separator in [50, 1000], else what the bare integers
\* give; 240.0 m² gives 240.
C14_TierPriority ==
    areaReturned =>
        LET text == call.text
        IN  /\ tier1(text) # {} => call.result # Undefined /\ call.result[1] \in tier1(text)
            /\ (tier1(text) = {} /\ tier2(text) # {}) =>
                   call.result # Undefined /\ call.result[1] \in tier2(text)
            /\ (tier1(text) = {} /\ tier2(text) = {} /\ tier3(text) # {}) =>
                   call.result # Undefined /\ call.result[1] \in tier3(text)
            /\ (tier1(text) = {} /\ tier2(text) = {} /\ tier3(text) = {}) =>
                   \/ call.result = Undefined
                   \/ call.result[1] \in tier4(text, call.expectedHouseNumber)
            /\ text = <<"2", "4", "0", ".", "0", " ", "m", SuperscriptTwo>> =>
                   call.result = Some(RInt(240))

\* a text with a candidate in each of the four tiers, all different, has given
\* the one of tier 1
C14_Witness ==
    /\ areaReturned
    /\ tier1(call.text) # {}
    /\ tier2(call.text) \ tier1(call.text) # {}
    /\ tier3(call.text) \ tier1(call.text) # {}
    /\ tier4(call.text, call.expectedHouseNumber) \ tier1(call.text) # {}
    /\ call.result # Undefined
    /\ call.result[1] \in tier1(call.text)

RECURSIVE isSubsequenceFrom(_, _, _, _)
isSubsequenceFrom(sub, i, full, j) ==
    IF i > Len(sub) THEN TRUE
    ELSE IF j > Len(full) THEN FALSE
    ELSE IF sub[i] = full[j] THEN isSubsequenceFrom(sub, i + 1, full, j + 1)
    ELSE isSubsequenceFrom(sub, i, full, j + 1)

\* the result keeps the order of the points and their two ends
keepsEnds(points, result) ==
    /\ Len(result) >= 2
    /\ result[1] = points[1]
    /\ result[Len(result)] = points[Len(points)]
    /\ isSubsequenceFrom(result, 1, points, 1)

interior(points) == 2..(Len(points) - 1)

\* the exact distance of every interior point from the chord is at most epsilon
withinEpsilon(points, epsilonSq) ==
    \A i \in interior(points) :
        RLe(perpendicularDistanceSquared(points[i], points[1], points[Len(points)]),
            epsilonSq)

\* every point lies on the line through two neighbouring points of the result
onResult(points, result) ==
    \A i \in DOMAIN points : \E j \in 1..(Len(result) - 1) :
        perpendicularDistanceSquared(points[i], result[j], result[j + 1]) = RInt(0)

\* no interior point has a computed distance from the chord above epsilon
computedWithinEpsilon(points, epsilonSq) ==
    \A i \in interior(points) :
        ~distanceGreater(perpendicularDistance(points[i], points[1], points[Len(points)]),
                         exactDistance(epsilonSq))

simplified == call.fn = "simplifyPolygon" /\ call.returned

\* C16 as stated: the result keeps the ends and is a subsequence; with epsilon = 0
\* an interior point is removed exactly when it is collinear with its chord; with
\* epsilon at least the largest distance from the chord the result is the two ends.
C16_SimplifyExact ==
    simplified =>
        /\ keepsEnds(call.points, call.result)
        /\ (call.epsilonSq = RInt(0) /\ Len(call.points) = 3) =>
               (call.result = <<call.points[1], call.points[3]>>
                    <=> withinEpsilon(call.points, RInt(0)))
        /\ withinEpsilon(call.points, call.epsilonSq) =>
               call.result = <<call.points[1], call.points[Len(call.points)]>>

\* C16 as the code has it: the result keeps the ends and is a subsequence; with
\* epsilon = 0 every point lies on a line of the result, so only collinear points are
\* removed; the result is the two ends exactly when no computed distance exceeds
\* epsilon, which for a positive epsilon is when no exact distance does.
C16_Simplify ==
    simplified =>
        /\ keepsEnds(call.points, call.result)
        /\ call.epsilonSq = RInt(0) => onResult(call.points, call.result)
        /\ computedWithinEpsilon(call.points, call.epsilonSq)
               <=> call.result = <<call.points[1], call.points[Len(call.points)]>>
        /\ call.epsilonSq # RInt(0) =>
               (withinEpsilon(call.points, call.epsilonSq)
                    <=> computedWithinEpsilon(call.points, call.epsilonSq))

\* with epsilon = 0 the list was split and a collinear point was removed
C16_Witness ==
    /\ simplified
    /\ call.epsilonSq = RInt(0)
    /\ Len(call.points) = 4
    /\ Len(call.result) = 3
    /\ call.result[1] # call.result[2]
    /\ call.result[2] # call.result[3]

(***************************************************************************)
(* C17: calculateArea                                                       *)
(***************************************************************************)
\* the list that starts k points later
rotated(points, k) ==
    [i \in DOMAIN points |-> points[((i - 1 + k) % Len(points)) + 1]]

reversed(points) == [i \in DOMAIN points |-> points[Len(points) + 1 - i]]

areaCalculated == call.fn = "calculateArea" /\ call.returned

sampledPositions(box) ==
    LET width  == box.maxX - box.minX
        height == box.maxY - box.minY
    IN  {<<box.minX + (k % width), box.minY + (k \div width)>> :
            k \in {k \in 0..(width * height - 1) : k % 4 = 0}}

RECURSIVE channelSum(_, _, _)
channelSum(image, positions, channel) ==
    IF positions = {} THEN 0
    ELSE LET p == CHOOSE p \in positions : TRUE
         IN  image[p][channel] + channelSum(image, positions \ {p}, channel)

hexValue(digit) == (CHOOSE i \in DOMAIN HexDigits : HexDigits[i] = digit) - 1

\* the result is # and two hexadecimal digits for each of the three averages
isColorOf(result, image, positions) ==
    /\ Len(result) = 7
    /\ result[1] = "#"
    /\ \A channel \in 1..3 :
           /\ result[2 * channel] \in Range(HexDigits)
           /\ result[2 * channel + 1] \in Range(HexDigits)
           /\ 16 * hexValue(result[2 * channel]) + hexValue(result[2 * channel + 1])
                  = RRound(Rat(channelSum(image, positions, channel),
                               Cardinality(positions)))

sampled == call.fn = "sampleColorFromRegion" /\ call.returned

\* C18: the result is null when the clamped box is empty or no sampled pixel has
\* an alpha above 128, and else the colour of the rounded averages of the sampled
\* pixels with an alpha above 128
C18_SampledColor ==
    (sampled /\ (call.drawn \/ emptyBox(call.points, ImageWidth, ImageHeight))) =>
        IF emptyBox(call.points, ImageWidth, ImageHeight) THEN call.result = Undefined
        ELSE LET box == clampedBox(call.points, ImageWidth, ImageHeight)
                 qualifying == {p \in sampledPositions(box) : call.image[p][4] > 128}
             IN  IF qualifying = {} THEN call.result = Undefined
                 ELSE /\ call.result # Undefined
                      /\ isColorOf(call.result[1], call.image, qualifying)

\* a colour came of a box in which one sampled pixel has alpha 128 and another more
C18_Witness ==
    /\ sampled
    /\ call.drawn
    /\ call.result # Undefined
    /\ LET positions == sampledPositions(clampedBox(call.points, ImageWidth, ImageHeight))
       IN  /\ \E p \in positions : call.image[p][4] = 128
           /\ \E p \in positions : call.image[p][4] > 128

(***************************************************************************)
(* C19: the polygon of the magic wand has at least 4 points                 *)
(***************************************************************************)
\* (minX, minY), (maxX, minY), (maxX, maxY), (minX, maxY) of the region
boxCorners(region) ==
    LET xs == [i \in DOMAIN region |-> region[i][1]]
        ys == [i \in DOMAIN region |-> region[i][2]]
    IN  <<<<SeqMin(xs), SeqMin(ys)>>, <<SeqMax(xs), SeqMin(ys)>>,
          <<SeqMax(xs), SeqMax(ys)>>, <<SeqMin(xs), SeqMax(ys)>>>>

wandPolygon == wand.phase = "returned" /\ wand.result # Undefined

\* C19: a polygon that magicWandSelect returns has at least 4 points; it is the four
\* corners of the region's bounding box when the boundary or the simplified boundary
\* has fewer than 4 points
C19_AtLeastFourPoints ==
    wandPolygon =>
        /\ Len(wand.result[1]) >= 4
        /\ (\/ Len(boundaryPixels(wand.region)) < 4
            \/ Len(finalPolygon(wand.region)) < 4)
               => wand.result[1] = boxCorners(wand.region)

\* the boundary had 4 points or more, its simplification fewer, and the box came back
C19_Witness ==
    /\ wandPolygon
    /\ Len(boundaryPixels(wand.region)) >= 4
    /\ Len(finalPolygon(wand.region)) < 4
    /\ wand.result[1] = boxCorners(wand.region)

(***************************************************************************)
(* C20: handlePointDrag                                                     *)
(***************************************************************************)
\* a step of handlePointDrag
pointDragged == call'.fn = "handlePointDrag" /\ call' # call

\* the points of the dragged label after the move: the point at the index replaced,
\* and the closing point with it when the first point of a closed ring moves
pointsAfterDrag(points, pointIndex, newPosition) ==
    [k \in DOMAIN points |->
        IF k = pointIndex + 1 THEN newPosition
        ELSE IF /\ pointIndex = 0
                /\ k = Len(points)
                /\ withinOne(points[k].x, points[1].x)
                /\ withinOne(points[k].y, points[1].y)
             THEN newPosition
        ELSE points[k]]

\* the label at position i of the selected image got its point moved
labelDragged(i) ==
    LET before == labelsData[selectedImageKey][i]
        after  == labelsData'[selectedImageKey][i]
    IN  /\ after.points = pointsAfterDrag(before.points, call'.pointIndex,
                                          call'.newPosition)
        /\ \A f \in DOMAIN before \ {"points", "updatedAt"} : after[f] = before[f]

\* the other labels and the history are as they were
othersKept(i) ==
    /\ history' = history
    /\ \A key \in ImageKeys \ {selectedImageKey} : labelsData'[key] = labelsData[key]
    /\ Len(labelsData'[selectedImageKey]) = Len(labelsData[selectedImageKey])
    /\ \A j \in DOMAIN labelsData[selectedImageKey] \ {i} :
           labelsData'[selectedImageKey][j] = labelsData[selectedImageKey][j]

\* C20: handlePointDrag replaces the point at the index of the given label, and the
\* closing point with it when the first point of a closed ring moves, and leaves
\* every other point, every other label and the history as they were
C20_PointDragFrame ==
    [][pointDragged => (labelDragged(call'.label) /\ othersKept(call'.label))]_vars

\* what holds of the code: the point is replaced in every label of the image that
\* has the given id, and the labels with another id and the history are kept
pointDragById ==
    [][pointDragged =>
          /\ history' = history
          /\ \A key \in ImageKeys \ {selectedImageKey} :
                 labelsData'[key] = labelsData[key]
          /\ Len(labelsData'[selectedImageKey]) = Len(labelsData[selectedImageKey])
          /\ \A j \in DOMAIN labelsData[selectedImageKey] :
                 IF labelsData[selectedImageKey][j].id = call'.labelId
                 THEN labelDragged(j)
                 ELSE labelsData'[selectedImageKey][j]
                          = labelsData[selectedImageKey][j]]_vars

\* the first point of a closed ring was moved twice and the closing point went
\* with it
closingPointMirrored ==
    /\ call.fn = "handlePointDrag"
    /\ call.pointIndex = 0
    /\ call.count = 2
    /\ LET points == labelsData[selectedImageKey][call.label].points
       IN  /\ points[1] = call.newPosition
           /\ points[Len(points)] = call.newPosition

\* two labels of the image have the id of the dragged point and both have moved
twoLabelsMoved ==
    /\ call.fn = "handlePointDrag"
    /\ \E i, j \in DOMAIN labelsData[selectedImageKey] :
           /\ i # j
           /\ labelsData[selectedImageKey][i].id = call.labelId
           /\ labelsData[selectedImageKey][j].id = call.labelId
           /\ labelsData[selectedImageKey][i].points[call.pointIndex + 1]
                  = call.newPosition
           /\ labelsData[selectedImageKey][j].points[call.pointIndex + 1]
                  = call.newPosition

(***************************************************************************)
(* C21: the strided sample                                                  *)
(***************************************************************************)
strided == call.fn = "stridedSample" /\ call.returned

\* C21: the sample of a boundary of 4 points or more has at most 50 points
C21_SampleAtMostTarget ==
    strided => Len(call.result) <= TargetPoints

\* what holds of the code: the sample starts with the first point and has fewer
\* than twice 50 points, and every point of a boundary of fewer than 100
sampleBelowTwiceTarget ==
    strided =>
        /\ call.result[1] = call.boundary[1]
        /\ Len(call.result) < 2 * TargetPoints
        /\ Len(call.boundary) < 2 * TargetPoints => call.result = call.boundary

(***************************************************************************)
(* C22: getCellBounds                                                       *)
(***************************************************************************)
\* boundary k of n columns or rows: 0, the dividers (k / n when absent), 1
boundaryFraction(dividers, n, k) ==
    IF k = 0 THEN RInt(0)
    ELSE IF k = n THEN RInt(1)
    ELSE IF dividers = Undefined THEN Rat(k, n)
    ELSE dividers[1][k]

\* the dividers of the config are absent or satisfy the invariant of BatchConfig
configDividersValid(config) ==
    /\ config.columnDividers # Undefined
           => validDividers(config.columnDividers[1], config.cols)
    /\ config.rowDividers # Undefined => validDividers(config.rowDividers[1], config.rows)

\* where the cell stands, from the boundaries
cellPlaced(config, rect, row, col, cell) ==
    LET width  == RSub(rect.end.x, rect.start.x)
        height == RSub(rect.end.y, rect.start.y)
        left   == boundaryFraction(config.columnDividers, config.cols, col)
        right  == boundaryFraction(config.columnDividers, config.cols, col + 1)
        top    == boundaryFraction(config.rowDividers, config.rows, row)
        bottom == boundaryFraction(config.rowDividers, config.rows, row + 1)
    IN  /\ cell.x = RAdd(rect.start.x, RMul(left, width))
        /\ cell.y = RAdd(rect.start.y, RMul(top, height))
        /\ RAdd(cell.x, cell.width) = RAdd(rect.start.x, RMul(right, width))
        /\ RAdd(cell.y, cell.height) = RAdd(rect.start.y, RMul(bottom, height))

\* positive cells that meet their neighbours edge to edge and fill the rectangle
cellsTile(config, rect, cells) ==
    \A row \in 0..(config.rows - 1) : \A col \in 0..(config.cols - 1) :
        LET cell == cells[row][col]
        IN  /\ RLt(RInt(0), cell.width)
            /\ RLt(RInt(0), cell.height)
            /\ cell.x = IF col = 0 THEN rect.start.x
                        ELSE RAdd(cells[row][col - 1].x, cells[row][col - 1].width)
            /\ cell.y = IF row = 0 THEN rect.start.y
                        ELSE RAdd(cells[row - 1][col].y, cells[row - 1][col].height)
            /\ col = config.cols - 1 => RAdd(cell.x, cell.width) = rect.end.x
            /\ row = config.rows - 1 => RAdd(cell.y, cell.height) = rect.end.y

cellsComputed == call.fn = "getCellBounds" /\ call.returned

C23_SelectedImagePresent == selectedImageKey \in DOMAIN labelsData

(***************************************************************************)
(* C25: undo                                                                *)
(***************************************************************************)
undoStep == call'.fn = "handleUndo" /\ opCount' = opCount + 1

C30_HistoryBounded ==
    /\ [](Len(history) <= HistoryKeep + 1)
    /\ [][(~undoStep /\ history' # history /\ Len(history) = HistoryKeep + 1)
              => history' = Append(Tail(history), labelsData)]_vars

\* two snapshots were saved on a history of 19: the second one on a full history
C30_Witness ==
    /\ opCount = 2
    /\ call.fn \in {"handleAddImage", "handleDeleteImage", "handleImport"}
    /\ Len(history) = HistoryKeep + 1
    /\ history[HistoryKeep] = [key \in ImageKeys |-> <<>>]
    /\ history[HistoryKeep + 1] # [key \in ImageKeys |-> <<>>]

(***************************************************************************)
(* C24: a batch in flight                                                   *)
(***************************************************************************)
\* the step that resumes the batch after the awaits of its last cell
batchEnds ==
    /\ batches # <<>>
    /\ ~batches[1].threw
    /\ batches[1].cell + 1 = batches[1].config.rows * batches[1].config.cols
    /\ batches' # batches

\* the batch is over, its image holds what it held followed by the batch's labels,
\* and every other image is as it was
batchCommitted ==
    LET b == batches[1]
    IN  /\ batches' = <<>>
        /\ DOMAIN labelsData' = DOMAIN labelsData
        /\ b.key \in DOMAIN labelsData
        /\ Len(labelsData'[b.key]) =
               Len(labelsData[b.key]) + b.config.rows * b.config.cols
        /\ SubSeq(labelsData'[b.key], 1, Len(labelsData[b.key])) = labelsData[b.key]
        /\ \A j \in (Len(labelsData[b.key]) + 1)..Len(labelsData'[b.key]) :
               labelsData'[b.key][j].made.batch = b.no
        /\ \A key \in DOMAIN labelsData \ {b.key} : labelsData'[key] = labelsData[key]

\* C24: whatever the user does while the detections of a batch are in flight (select
\* another image, delete an image, add or delete labels), the batch ends without an
\* error, its labels are appended to the image that was selected at the
\* confirmation behind the labels added meanwhile, and no other image changes
C24_BatchSurvivesEdits == [][batchEnds => batchCommitted]_vars

\* the same while the image of the batch is still there
batchCommitsOnImageLeft ==
    [][(batchEnds /\ batches[1].key \in DOMAIN labelsData) => batchCommitted]_vars

\* a batch ended on an image that was not shown any more and had got a label meanwhile
batchEndedBehindEdits ==
    /\ batchLog # <<>>
    /\ batches = <<>>
    /\ selectedImageKey # batchLog[1].key
    /\ batchLog[1].key \in DOMAIN labelsData
    /\ Len(labelsData[batchLog[1].key]) = 3
    /\ labelsData[batchLog[1].key][1].made.batch = 0

(***************************************************************************)
(* C26: point drags and the closing point                                   *)
(***************************************************************************)
\* C26: after any sequence of point drags, on any index the overlay offers, every
\* label's last point is equal to its first point
C26_DragsKeepRingsClosed ==
    \A key \in DOMAIN labelsData : \A i \in DOMAIN labelsData[key] :
        LET points == labelsData[key][i].points
        IN  points[1] = points[Len(points)]

\* the same after drags of the first point only, by less than a pixel or further
firstPointDragsKeepRingsClosed ==
    (call.fn = "handlePointDrag" /\ call.count = 1 /\ call.pointIndex = 0)
        => C26_DragsKeepRingsClosed

(***************************************************************************)
(* C27: drawingPoints outside the drawing modes                             *)
(***************************************************************************)
\* C27: whenever the mode is neither 'draw' nor 'magic-wand' and the new-label
\* modal is closed, drawingPoints is empty
C27_NoStrayDrawingPoints ==
    (mode \notin {"draw", "magic-wand"} /\ ~showNewLabelModal) => drawingPoints = <<>>

(***************************************************************************)
(* C28: a detection that returns after the mode was left                    *)
(***************************************************************************)
\* handleMagicWandClick resumes after its await
wandResumes == wand.phase # "returned" /\ wand'.phase = "returned"

\* C28: the result of a magic-wand detection is applied (drawingPoints set, the
\* new-label modal opened) only when the editor is still in 'magic-wand' mode as
\* the detection completes
C28_LateResultDiscarded ==
    [][(wandResumes /\ mode # "magic-wand")
           => UNCHANGED <<drawingPoints, showNewLabelModal>>]_vars

\* a detection that returns in 'magic-wand' mode with a polygon is applied
resultAppliedInWandMode ==
    [][(wandResumes /\ mode = "magic-wand" /\ wand'.result # Undefined)
           => (showNewLabelModal' /\ Len(drawingPoints') >= 3)]_vars

(***************************************************************************)
(* C29: the numbering orders are bijections                                 *)
(***************************************************************************)
BijectiveOrders == {"ltr", "rtl", "boustrophedon", "col-ltr", "col-rtl"}

\* the sequence index maps the cells of the grid one to one onto 0..rows * cols - 1
indexIsBijection(config) ==
    LET cells == (0..(config.rows - 1)) \X (0..(config.cols - 1))
    IN  /\ \A cell \in cells :
               sequenceIndex(config, cell[1], cell[2]) \in 0..(config.rows * config.cols - 1)
        /\ \A k \in 0..(config.rows * config.cols - 1) :
               Cardinality({cell \in cells :
                               sequenceIndex(config, cell[1], cell[2]) = k}) = 1

\* C29: for ltr, rtl, boustrophedon, col-ltr and col-rtl the sequence index is a
\* bijection from the cells onto 0..rows * cols - 1, and without a custom sequence
\* the labels of one batch have house numbers that differ pairwise
C29_NumbersDistinct ==
    \A n \in DOMAIN batchLog :
        LET config == batchLog[n].config
            labels == batchLabelsOf(labelsData[batchLog[n].key], n)
        IN  config.numberingOrder \in BijectiveOrders =>
                /\ indexIsBijection(config)
                /\ ~config.useCustomSequence =>
                       \A i, j \in DOMAIN labels :
                           i # j => labels[i].houseNumber # labels[j].houseNumber

\* a boustrophedon batch of 3 rows and more columns than rows, with the increment 2
\* and no custom sequence, has finished
C29_Witness ==
    \E n \in DOMAIN batchLog :
        LET config == batchLog[n].config
        IN  /\ config.numberingOrder = "boustrophedon"
            /\ ~config.useCustomSequence
            /\ config.rows = 3
            /\ config.cols > config.rows
            /\ config.houseNumberIncrement = 2
            /\ Len(batchLabelsOf(labelsData[batchLog[n].key], n)) = config.rows * config.cols

====
